-------------------------- MODULE AgentHost_proofs --------------------------
(***************************************************************************)
(* One agent and its host, for any VMs, port ranges, runtimes, capacity and *)
(* number of requests, faults, crashes and reboots: addresses and ports are *)
(* never shared, nothing on the host is without a row, a serving agent uses *)
(* the range and runtime its rows came from, guests are guarded and within  *)
(* capacity, and rules that are lost are noticed.                           *)
(***************************************************************************)
EXTENDS AgentHost, FiniteSetTheorems, WellFoundedInduction, TLAPS

Cleanings == {"unload", "unpublish", "release", "allow", "untap", "unisolate", "remove", "conclude"}
Endings == Cleanings \union {"end", "stopped"}
Buildings == {"seed", "network", "clone", "fill", "isolate", "tap", "unforward", "forward", "deny",
              "ingress", "launch", "settle"}
Guest == {"running", "paused", "stopped"}
Op == [call : {"create", "start", "stop", "destroy", "reconcile"}, vm : Vms,
       at : Endings \union Buildings, row : Row, was : States \union {None}, failed : BOOLEAN]

Agent == [phase : {"down", "open", "bound", "up"}, ports : SUBSET AllPorts,
          runtime : Runtimes \union {None}, ready : BOOLEAN]

HostType ==
  /\ rows \in [Vms -> Row]
  /\ meta \in [ports : SUBSET AllPorts, runtime : Runtimes \union {None}]
  /\ agent \in Agent
  /\ op \in Op \union {Idle}
  /\ held \in [Vms -> SUBSET Things]
  /\ live \in [Vms -> Guest]

\* Rows share nothing, and their ports are of the bound range.
AddressInv ==
  /\ AddressesUnique
  /\ \A v \in Known : rows[v].ports \subseteq meta.ports
  /\ \A v \in Known \intersect Containers : rows[v].ip = NoIp

\* The range and the runtime a process serves with are the recorded ones.
BindingInv ==
  /\ Up => agent.ports = meta.ports
  /\ agent.phase \in {"bound", "up"} => agent.runtime = meta.runtime

\* What is held belongs to a row, and only containers are with a runtime, the
\* recorded one.
HeldRule(v) ==
  /\ v \notin Known => held[v] = {} /\ live[v] = "stopped"
  /\ held[v] \intersect Runtimes \subseteq {meta.runtime}
  /\ v \notin Containers => held[v] \intersect Runtimes = {}
  /\ v \in Containers /\ live[v] # "stopped" => held[v] \intersect Runtimes # {}
HeldInv == \A v \in Vms : HeldRule(v)

RulesInv ==
  /\ forwards \subseteq UNION {rows[v].ports \X {rows[v].ip} : v \in Known}
  /\ denied \subseteq {rows[v].ip : v \in Known \intersect Guarded}

\* An operation works for a row whose addresses it has right.
OpInv ==
  op # Idle =>
    /\ Up /\ op.vm \in Known
    /\ op.row.ip = rows[op.vm].ip /\ op.row.ports = rows[op.vm].ports /\ op.row.state # "absent"
    /\ op.at \in Endings <=> op.call \in {"stop", "destroy"}
    /\ op.call = "reconcile" => op.vm \notin Containers
    /\ op.call = "create" /\ op.vm \in Containers => agent.runtime # None
    /\ op.at = "seed" => op.call = "create"

\* What a destruction has behind it, unless a cleanup failed.
CleanInv ==
  op # Idle /\ op.at \in Cleanings =>
    /\ live[op.vm] = "stopped"
    /\ ~op.failed =>
         /\ op.at # "unload" => held[op.vm] \intersect ({"run"} \union Runtimes) = {}
         /\ op.at \notin {"unload", "unpublish"} => "ingress" \notin held[op.vm]
         /\ op.at \notin {"unload", "unpublish", "release"} =>
              \A f \in forwards : f[2] # op.row.ip
         /\ op.at \in {"untap", "unisolate", "remove", "conclude"} => op.row.ip \notin denied
         /\ op.at \in {"unisolate", "remove", "conclude"} => "tap" \notin held[op.vm]
         /\ op.at \in {"remove", "conclude"} => "isolation" \notin held[op.vm]
         /\ op.at = "conclude" => held[op.vm] \intersect {"part", "disk"} = {}

HostInv == HostType /\ AddressInv /\ BindingInv /\ HeldInv /\ RulesInv /\ OpInv /\ CleanInv

-----------------------------------------------------------------------------

LEMMA HostInitInv == Init => HostInv
<1> SUFFICES ASSUME Init PROVE HostInv
  OBVIOUS
<1>a. NoRow \in Row
  BY DEF NoRow, Row, States, Errors, NoIp
<1>1. HostType
  BY <1>a DEF Init, HostType, Down, Guest, Agent
<1>2. Known = {}
  BY DEF Init, Known, NoRow
<1> QED
  BY <1>1, <1>2 DEF Init, HostInv, AddressInv, AddressesUnique, BindingInv, Up, Down, HeldInv,
     HeldRule, RulesInv, OpInv, CleanInv

LEMMA NotIdle == \A o \in Op : o # Idle
BY DEF Op, Idle, None

LEMMA AtWork == op.at # None => op # Idle
BY DEF Idle

\* Rows that keep their addresses.
SameRows ==
  /\ rows' \in [Vms -> Row]
  /\ \A v \in Vms : /\ rows'[v].ip = rows[v].ip /\ rows'[v].ports = rows[v].ports
                    /\ rows'[v].state = "absent" <=> rows[v].state = "absent"

LEMMA RowsSame ==
  ASSUME HostInv, SameRows
  PROVE  /\ Known' = Known
         /\ meta'.ports = meta.ports => AddressInv'
         /\ forwards' \subseteq forwards /\ denied' \subseteq denied => RulesInv'
<1>1. Known' = Known
  BY DEF SameRows, Known
<1>2. ASSUME meta'.ports = meta.ports PROVE AddressInv'
  BY <1>1, <1>2 DEF HostInv, AddressInv, AddressesUnique, SameRows, Known
<1>3. ASSUME forwards' \subseteq forwards, denied' \subseteq denied PROVE RulesInv'
  BY <1>1, <1>3 DEF HostInv, RulesInv, SameRows, Known
<1> QED BY <1>1, <1>2, <1>3

LEMMA SaveKeeps ==
  ASSUME HostInv, NEW v \in Known, NEW row \in Row, Save(v, row), row.state # "absent",
         row.ip = rows[v].ip, row.ports = rows[v].ports
  PROVE  SameRows
BY DEF HostInv, HostType, Save, SameRows, Known

LEMMA StayKeeps ==
  ASSUME HostInv, UNCHANGED rows
  PROVE  SameRows
BY DEF HostInv, HostType, SameRows

\* What a failed step saves keeps the addresses.
LEMMA OpRow ==
  ASSUME HostInv, op # Idle
  PROVE  /\ op \in Op /\ V \in Known /\ V \in Vms /\ op.row \in Row /\ op.row.state # "absent"
         /\ op.row.ip = rows[V].ip /\ op.row.ports = rows[V].ports /\ Up
BY DEF HostInv, HostType, OpInv, V, Op, Known

LEMMA SaveOp ==
  ASSUME HostInv, op # Idle, NEW state \in States \ {"absent"}, NEW error \in Errors,
         Save(V, [op.row EXCEPT !.state = state, !.error = error])
  PROVE  SameRows
<1> DEFINE row == [op.row EXCEPT !.state = state, !.error = error]
<1>1. row \in Row /\ row.state = state /\ row.ip = op.row.ip /\ row.ports = op.row.ports
  BY OpRow DEF Row
<1> QED BY <1>1, OpRow, SaveKeeps

\* What the rows keep, operation by operation.
LEMMA OpenSame == ASSUME HostInv, Open PROVE SameRows
BY DEF Open, SameRows, HostInv, HostType, Row, Errors, RecoveryOwned, Live

LEMMA CallSame ==
  ASSUME HostInv, NEW v \in Known, UNCHANGED rows \/ Save(v, [rows[v] EXCEPT !.state = "creating"]) \/ Destroys(v)
  PROVE  SameRows
<1>0. rows[v] \in Row
  BY DEF HostInv, HostType, Known
<1>1. ASSUME NEW state \in {"creating", "deleting"}, Save(v, [rows[v] EXCEPT !.state = state]) PROVE SameRows
  <2> DEFINE row == [rows[v] EXCEPT !.state = state]
  <2>1. row \in Row /\ row.state # "absent" /\ row.ip = rows[v].ip /\ row.ports = rows[v].ports
    BY <1>0 DEF Row, States
  <2> QED BY <1>1, <2>1, SaveKeeps
<1>2. CASE Destroys(v)
  <2>1. Save(v, [rows[v] EXCEPT !.state = "deleting"])
    BY <1>2 DEF Destroys
  <2> QED BY <1>1, <2>1
<1> QED BY <1>1, <1>2, StayKeeps

LEMMA ScanSame ==
  ASSUME HostInv, NEW v \in Vms, Reconcile(v)
  PROVE  SameRows
<1> DEFINE row == Observed(v)
           was == rows[v].state
<1>0. v \in Known /\ rows[v] \in Row /\ live[v] \in Guest /\ was \in States \ {"absent"}
  BY DEF Reconcile, Scans, HostInv, HostType, Known, Row
<1>1. row \in Row /\ row.ip = rows[v].ip /\ row.ports = rows[v].ports /\ row.state # "absent"
  BY <1>0 DEF Observed, Actual, Row, States, Errors, RecoveryOwned, None, Guest
<1>2. ASSUME NEW kept \in {row, Recovered(row, was)}, Save(v, kept) PROVE SameRows
  <2>1. kept \in Row /\ kept.ip = rows[v].ip /\ kept.ports = rows[v].ports /\ kept.state # "absent"
    BY <1>1 DEF Recovered, Row, Errors, None
  <2> QED BY <1>0, <1>2, <2>1, SaveKeeps
<1>3. CASE UNCHANGED rows \/ Destroys(v)
  BY <1>0, <1>3, CallSame
<1> QED BY <1>2, <1>3 DEF Reconcile

LEMMA EndSame == HostInv /\ op # Idle /\ (EndFails \/ Stopped) => SameRows
<1> SUFFICES ASSUME HostInv, op # Idle, EndFails \/ Stopped PROVE SameRows
  OBVIOUS
<1>1. CASE Stopped
  BY <1>1, SaveOp DEF Stopped, States, Errors
<1>2. CASE EndFails
  <2> DEFINE error == IF op.call = "stop" THEN "stop unfinished" ELSE "operation failed"
  <2>1. op.row.state \in States \ {"absent"} /\ error \in Errors /\ op.row \in Row
    BY OpRow DEF Row, Errors
  <2>2. [op.row EXCEPT !.error = error] = [op.row EXCEPT !.state = op.row.state, !.error = error]
    BY <2>1 DEF Row
  <2> QED BY <1>2, <2>1, <2>2, SaveOp DEF EndFails
<1> QED BY <1>1, <1>2

LEMMA SettleSame == HostInv /\ op # Idle /\ Settle => SameRows
<1> SUFFICES ASSUME HostInv, op # Idle, Settle PROVE SameRows
  OBVIOUS
<1> DEFINE row == Recovered(op.row, op.was)
<1>1. row \in Row /\ row.ip = op.row.ip /\ row.ports = op.row.ports /\ row.state = op.row.state
  BY OpRow DEF Recovered, Row, Errors, None
<1> QED BY <1>1, OpRow, SaveKeeps DEF Settle

LEMMA EventSame ==
  ASSUME HostInv, NEW v \in Known, NEW error \in Errors, NEW readable \in BOOLEAN,
         Save(v, [rows[v] EXCEPT !.error = error, !.readable = readable])
  PROVE  SameRows
<1> DEFINE row == [rows[v] EXCEPT !.error = error, !.readable = readable]
<1>1. row \in Row /\ row.ip = rows[v].ip /\ row.ports = rows[v].ports /\ row.state # "absent"
  BY DEF HostInv, HostType, Row, Known
<1> QED BY <1>1, SaveKeeps

\* The end of an operation: its row saved, the host as it is.
LEMMA Finishes ==
  ASSUME HostInv, SameRows, op' = Idle, UNCHANGED <<meta, held>>, BindingInv', 
         agent' \in Agent,
         live' \in [Vms -> Guest], \A v \in Vms : live'[v] \in {live[v], "stopped"},
         forwards' \subseteq forwards, denied' \subseteq denied
  PROVE  HostInv'
<1>1. Known' = Known /\ AddressInv' /\ RulesInv'
  BY RowsSame
<1>2. HostType'
  BY DEF HostInv, HostType, SameRows
<1>3. HeldInv'
  BY <1>1 DEF HostInv, HeldInv, HeldRule
<1> QED BY <1>1, <1>2, <1>3 DEF HostInv, OpInv, CleanInv

\* Steps of a creation, a start or a recovery: the VM gains a thing that is no
\* runtime, and its row stays.
LEMMA Builds ==
  ASSUME HostInv, op # Idle, op.at \in Buildings, NEW next \in Buildings \ {"seed"}, Go(next),
         UNCHANGED <<rows, meta, live>>, agent' \in {agent, [agent EXCEPT !.ready = TRUE]},
         NEW things \in SUBSET Files, held' \in {held, [held EXCEPT ![op.vm] = @ \union things]},
         RulesInv'
  PROVE  HostInv'
<1>1. op' \in Op /\ op' # Idle /\ op'.at = next /\ op'.vm = op.vm /\ op'.row = op.row
      /\ op'.call = op.call
  <2>1. op \in Op
    BY DEF HostInv, HostType
  <2>2. op' \in Op /\ op'.at = next /\ op'.vm = op.vm /\ op'.row = op.row /\ op'.call = op.call
    BY <2>1 DEF Go, Op
  <2> QED BY <2>2, NotIdle
<1>2. Known' = Known /\ AddressInv'
  BY StayKeeps, RowsSame
<1>3. agent'.phase = agent.phase /\ agent'.ports = agent.ports /\ agent'.runtime = agent.runtime
      /\ agent' \in Agent
  <2>1. agent \in Agent
    BY DEF HostInv, HostType
  <2>2. [agent EXCEPT !.ready = TRUE] \in Agent
    BY <2>1 DEF Agent
  <2> QED BY <2>1, <2>2 DEF Agent
<1>4. op.vm \in Known /\ op.vm \in Vms
  BY DEF HostInv, OpInv, Known
<1>5. held' \in [Vms -> SUBSET Things] /\ HeldInv'
  <2>1. \A v \in Vms : held'[v] \in {held[v], held[v] \union things} /\ (v # op.vm => held'[v] = held[v])
    BY <1>4 DEF HostInv, HostType
  <2>2. things \intersect Runtimes = {} /\ things \subseteq Things
    BY AgentHostAssumption DEF Things
  <2>3. held' \in [Vms -> SUBSET Things]
    BY <1>4, <2>2 DEF HostInv, HostType
  <2>4. \A v \in Vms : held'[v] \intersect Runtimes = held[v] \intersect Runtimes
    BY <2>1, <2>2
  <2> QED BY <1>2, <1>4, <2>1, <2>3, <2>4 DEF HostInv, HeldInv, HeldRule
<1>6. HostType' /\ BindingInv'
  BY <1>1, <1>3, <1>5 DEF HostInv, HostType, BindingInv, Up
<1>7. OpInv'
  BY <1>1, <1>2, <1>3 DEF HostInv, OpInv, Up, Buildings, Endings, Cleanings
<1>8. CleanInv'
  BY <1>1 DEF CleanInv, Buildings, Cleanings
<1> QED BY <1>2, <1>5, <1>6, <1>7, <1>8 DEF HostInv

Drops(things) == held' = [held EXCEPT ![op.vm] = @ \ things]

Took(things) ==
  /\ op.at = "unload" => held'[op.vm] \intersect ({"run"} \union Runtimes) = {}
  /\ op.at = "unpublish" => "ingress" \in things
  /\ op.at = "release" => \A f \in forwards' : f[2] # op.row.ip
  /\ op.at = "allow" => op.row.ip \notin denied'
  /\ op.at = "untap" => "tap" \in things
  /\ op.at = "unisolate" => "isolation" \in things
  /\ op.at = "remove" => {"part", "disk"} \subseteq things

\* A cleanup that took its things away, or failed and is remembered.
LEMMA Cleaned ==
  ASSUME HostInv, op # Idle, op.at \in DOMAIN After, NEW failed \in {op.failed, TRUE},
         op' = [op EXCEPT !.at = After[op.at], !.failed = failed],
         UNCHANGED <<rows, meta, agent, live>>,
         NEW things \in SUBSET Things, Drops(things),
         RulesInv', forwards' \subseteq forwards, denied' \subseteq denied,
         failed \/ Took(things)
  PROVE  HostInv'
<1>0. op \in Op /\ op.at \in Cleanings \ {"conclude"} /\ After[op.at] \in Cleanings \ {"unload"}
      /\ op.vm \in Known /\ op.vm \in Vms /\ failed \in BOOLEAN
  <2>1. op \in Op /\ op.vm \in Known /\ op.vm \in Vms
    BY DEF HostInv, HostType, OpInv, Known
  <2>2. op.at \in Cleanings \ {"conclude"} /\ After[op.at] \in Cleanings \ {"unload"}
    BY DEF After, Cleanings
  <2> QED BY <2>1, <2>2 DEF Op
<1>1. op' \in Op /\ op' # Idle /\ op'.at = After[op.at] /\ op'.vm = op.vm /\ op'.row = op.row
      /\ op'.call = op.call /\ op'.failed = failed
  <2>1. After[op.at] \in Endings \union Buildings
    BY <1>0 DEF Endings
  <2>2. op' \in Op /\ op'.at = After[op.at] /\ op'.vm = op.vm /\ op'.row = op.row
        /\ op'.call = op.call /\ op'.failed = failed
    BY <1>0, <2>1 DEF Op
  <2> QED BY <2>2, NotIdle
<1>2. Known' = Known /\ AddressInv'
  BY StayKeeps, RowsSame
<1>3. \A v \in Vms : held'[v] \subseteq held[v] /\ (v # op.vm => held'[v] = held[v])
  BY <1>0 DEF HostInv, HostType, Drops
<1>4. live[op.vm] = "stopped"
  BY <1>0 DEF HostInv, CleanInv
<1>5. HostType' /\ BindingInv'
  <2>1. held' \in [Vms -> SUBSET Things]
    BY <1>0 DEF HostInv, HostType, Drops
  <2> QED BY <1>1, <2>1 DEF HostInv, HostType, BindingInv, Up
<1>6. HeldInv'
  BY <1>2, <1>3, <1>4 DEF HostInv, HeldInv, HeldRule
<1>7. OpInv'
  BY <1>0, <1>1, <1>2 DEF HostInv, OpInv, Up, Endings, Buildings, Cleanings
<1>8. CleanInv'
  <2> SUFFICES ASSUME ~failed PROVE CleanInv'
    BY <1>0, <1>1, <1>4 DEF CleanInv
  <2>1. ~op.failed /\ held'[op.vm] = held[op.vm] \ things
    BY <1>0 DEF HostInv, HostType, Op, Drops
  <2> QED BY <1>0, <1>1, <1>4, <2>1 DEF HostInv, CleanInv, After, Cleanings, Took
<1> QED BY <1>2, <1>5, <1>6, <1>7, <1>8 DEF HostInv

\* A free address remains for any VM without a row.
LEMMA FreeIp ==
  ASSUME HostInv, NEW v \in Vms \ Containers, v \notin Known
  PROVE  FirstIp \in Ips \ UsedIps
<1> DEFINE Others == (Vms \ Containers) \ {v}
           addresses == {rows[w].ip : w \in Others}
           f == [w \in Others |-> rows[w].ip]
           N == Cardinality(Vms \ Containers)
<1>1. IsFiniteSet(Vms \ Containers) /\ IsFiniteSet(Others)
  BY AgentHostAssumption, FS_Subset
<1>2. N \in Nat /\ Cardinality(Others) = N - 1
  BY <1>1, FS_CardinalityType, FS_RemoveElement
<1>3. IsFiniteSet(addresses) /\ Cardinality(addresses) <= N - 1
  <2>1. f \in Surjection(Others, addresses)
    BY DEF Surjection
  <2> QED BY <1>1, <1>2, <2>1, FS_Surjection
<1>4. Ips \intersect UsedIps \subseteq addresses
  BY DEF HostInv, AddressInv, UsedIps, Ips, NoIp, Known
<1>5. IsFiniteSet(Ips) /\ Cardinality(Ips) = N
  BY <1>2, FS_Interval DEF Ips
<1>6. Ips \ UsedIps # {}
  <2> SUFFICES ASSUME Ips \subseteq addresses PROVE FALSE
    BY <1>4
  <2>1. Cardinality(Ips) <= Cardinality(addresses)
    BY <1>3, FS_Subset
  <2> QED BY <1>2, <1>3, <1>5, <2>1, FS_CardinalityType
<1>7. \E i \in Ips \ UsedIps : \A j \in Ips \ UsedIps : i <= j
  <2>1. Ips \ UsedIps \subseteq Nat
    BY <1>2 DEF Ips
  <2>2. PICK i \in Ips \ UsedIps : \A j \in Ips \ UsedIps : <<j, i>> \notin OpToRel(<, Nat)
    BY <1>6, <2>1, NatLessThanWellFounded, WFMin
  <2>3. \A j \in Ips \ UsedIps : ~(j < i)
    BY <2>1, <2>2 DEF OpToRel
  <2> QED BY <2>1, <2>3
<1> QED BY <1>7 DEF FirstIp

-----------------------------------------------------------------------------

LEMMA StartingKeeps == HostInv /\ Starting => HostInv'
<1> SUFFICES ASSUME HostInv, Starting PROVE HostInv'
  OBVIOUS
<1>0. op = Idle
  BY DEF HostInv, OpInv, Starting, Open, BindRuntime, BindNetwork, Up
<1>1. CASE Open
  <2>1. SameRows
    BY <1>1, OpenSame
  <2>2. agent' \in Agent /\ agent'.phase = "open"
    BY <1>1 DEF Open, Down, Agent
  <2> QED BY <1>0, <1>1, <2>1, <2>2, Finishes DEF Open, World, BindingInv, Up, HostInv, HostType
<1>2. CASE BindRuntime
  <2> PICK requested \in Runtimes \union {None} : \E runtime \in Selected(requested) :
         /\ agent' = [agent EXCEPT !.phase = "bound", !.runtime = runtime]
         /\ meta' = [meta EXCEPT !.runtime = IF runtime = None THEN @ ELSE runtime]
    BY <1>2 DEF BindRuntime
  <2> PICK runtime \in Selected(requested) :
         /\ agent' = [agent EXCEPT !.phase = "bound", !.runtime = runtime]
         /\ meta' = [meta EXCEPT !.runtime = IF runtime = None THEN @ ELSE runtime]
    OBVIOUS
  <2>1. runtime \in Runtimes \union {None} /\ (runtime = None => meta.runtime = None)
    BY DEF Selected, HostInv, HostType
  <2>2. agent' \in Agent /\ agent'.phase = "bound" /\ agent'.runtime = runtime
    BY <2>1 DEF HostInv, HostType, Agent
  <2>3. meta' \in [ports : SUBSET AllPorts, runtime : Runtimes \union {None}] /\ meta'.ports = meta.ports
        /\ meta'.runtime = runtime
    BY <2>1 DEF HostInv, HostType
  <2>4. SameRows /\ UNCHANGED <<op, held, live, forwards, denied>>
    BY <1>2, StayKeeps DEF BindRuntime, World
  <2>5. Known' = Known /\ AddressInv' /\ RulesInv'
    BY <2>3, <2>4, RowsSame
  <2>6. \A v \in Vms : held[v] \intersect Runtimes # {} => meta.runtime = runtime
    <3> SUFFICES ASSUME NEW v \in Vms, held[v] \intersect Runtimes # {}, meta.runtime # runtime PROVE FALSE
      OBVIOUS
    <3>1. v \in Known \intersect Containers /\ meta.runtime # None
      BY AgentHostAssumption DEF HostInv, HeldInv, HeldRule
    <3>2. Occupied
      BY <3>1 DEF Occupied, HasContainers, Readable
    <3> QED BY <3>1, <3>2, <2>1 DEF Selected
  <2>7. HeldInv'
    BY <2>3, <2>4, <2>5, <2>6 DEF HostInv, HeldInv, HeldRule
  <2> QED BY <1>0, <2>2, <2>3, <2>4, <2>5, <2>7 DEF HostInv, HostType, SameRows, BindingInv, Up, OpInv, CleanInv
<1>3. CASE BindNetwork
  <2> PICK range \in Ranges :
         /\ Configurable(range)
         /\ agent' = [agent EXCEPT !.phase = "up", !.ports = range]
         /\ meta' = [meta EXCEPT !.ports = range]
    BY <1>3 DEF BindNetwork
  <2>1. range \subseteq AllPorts
    BY DEF AllPorts
  <2>2. agent' \in Agent /\ agent'.phase = "up" /\ agent'.runtime = agent.runtime /\ agent'.ports = range
        /\ agent.phase = "bound"
    BY <1>3, <2>1 DEF HostInv, HostType, Agent, BindNetwork
  <2>3. meta' \in [ports : SUBSET AllPorts, runtime : Runtimes \union {None}] /\ meta'.ports = range
        /\ meta'.runtime = meta.runtime
    BY <2>1 DEF HostInv, HostType
  <2>4. UNCHANGED <<rows, op, held, live, forwards, denied>> /\ Known' = Known
    BY <1>3 DEF BindNetwork, World, Known
  <2>5. AddressInv'
    BY <2>3, <2>4 DEF HostInv, AddressInv, AddressesUnique, Configurable
  <2>6. HeldInv' /\ RulesInv'
    BY <2>3, <2>4 DEF HostInv, HeldInv, HeldRule, RulesInv
  <2> QED BY <1>0, <2>2, <2>3, <2>4, <2>5, <2>6 DEF HostInv, HostType, BindingInv, Up, OpInv, CleanInv
<1> QED BY <1>1, <1>2, <1>3 DEF Starting

\* A request that starts an operation on a VM with a row.
LEMMA Begins ==
  ASSUME HostInv, op = Idle, Up, SameRows, UNCHANGED <<meta, agent, World>>,
         NEW v \in Known, NEW row \in Row, row.ip = rows[v].ip, row.ports = rows[v].ports, row.state # "absent",
         NEW call \in {"start", "stop", "destroy", "reconcile"}, NEW step \in Endings \union Buildings,
         NEW was \in States \union {None}, Begin(call, v, step, row, was),
         step \notin Cleanings \union {"seed"}, step \in Endings <=> call \in {"stop", "destroy"},
         call = "reconcile" => v \notin Containers
  PROVE  HostInv'
<1>1. Known' = Known /\ AddressInv' /\ RulesInv'
  BY RowsSame DEF World
<1>2. op' \in Op /\ op'.vm = v /\ op'.row = row /\ op'.at = step /\ op'.call = call
  BY DEF Begin, Op, Known
<1>3. HostType' /\ BindingInv' /\ HeldInv'
  BY <1>1, <1>2 DEF HostInv, HostType, SameRows, World, BindingInv, HeldInv, HeldRule, Up
<1>4. OpInv'
  BY <1>1, <1>2 DEF OpInv, Up, SameRows, Known
<1>5. CleanInv'
  BY <1>2 DEF CleanInv
<1> QED BY <1>1, <1>3, <1>4, <1>5 DEF HostInv

LEMMA DestroyBegins ==
  ASSUME HostInv, Ready, NEW v \in Known, Destroys(v), UNCHANGED <<meta, agent, World>>
  PROVE  HostInv'
<1> DEFINE row == [rows[v] EXCEPT !.state = "deleting"]
<1>1. rows[v] \in Row /\ v \in Vms
  BY DEF HostInv, HostType, Known
<1>2. row \in Row /\ row.state = "deleting" /\ row.ip = rows[v].ip /\ row.ports = rows[v].ports
      /\ rows[v].state \in States
  BY <1>1 DEF Row, States
<1>3. SameRows
  BY <1>2, SaveKeeps DEF Destroys
<1> QED BY <1>2, <1>3, Begins DEF Ready, Destroys, Endings, Cleanings

\* A creation takes a free address and free ports.
LEMMA CreateKeeps ==
  ASSUME HostInv, NEW v \in Vms, Create(v)
  PROVE  HostInv'
<1> PICK ports \in Allocations(v) :
       LET row == [state |-> "creating", error |-> None, ports |-> ports, readable |-> TRUE,
                   ip |-> IF v \in Containers THEN NoIp ELSE FirstIp]
       IN Save(v, row) /\ Begin("create", v, "seed", row, None)
  BY DEF Create
<1> DEFINE row == [state |-> "creating", error |-> None, ports |-> ports, readable |-> TRUE,
                   ip |-> IF v \in Containers THEN NoIp ELSE FirstIp]
<1>1. v \notin Known /\ op = Idle /\ Up /\ UNCHANGED <<meta, agent, World>>
      /\ (v \in Containers => agent.runtime # None)
  BY DEF Create, Ready
<1>2. ports \subseteq meta.ports /\ ports \subseteq AllPorts /\ \A w \in Known : ports \intersect rows[w].ports = {}
  BY <1>1 DEF Allocations, UsedPorts, HostInv, BindingInv, HostType
<1>3. row.ip \in Ips \union {NoIp} /\ \A w \in Known : rows[w].ip = row.ip => row.ip = NoIp
  BY <1>1, FreeIp DEF UsedIps
<1>4. row \in Row
  BY <1>2, <1>3 DEF Row, States, Errors, RecoveryOwned, None
<1>5. /\ rows' \in [Vms -> Row] /\ rows'[v] = row /\ \A w \in Vms \ {v} : rows'[w] = rows[w]
      /\ Known' = Known \union {v}
  BY <1>4 DEF Save, Known, HostInv, HostType
<1>6. op' \in Op /\ op'.vm = v /\ op'.row = row /\ op'.at = "seed" /\ op'.call = "create"
  BY <1>4 DEF Begin, Op, Buildings
<1>7. AddressInv'
  BY <1>1, <1>2, <1>3, <1>5 DEF HostInv, AddressInv, AddressesUnique, Known
<1>8. HeldInv' /\ BindingInv'
  BY <1>1, <1>5 DEF HostInv, HeldInv, HeldRule, BindingInv, Up, World
<1>9. RulesInv'
  BY <1>1, <1>5 DEF HostInv, RulesInv, World, Known
<1>10. OpInv' /\ CleanInv' /\ HostType'
  BY <1>1, <1>5, <1>6 DEF HostInv, HostType, OpInv, CleanInv, Cleanings, Endings, Up, World
<1> QED BY <1>7, <1>8, <1>9, <1>10 DEF HostInv

LEMMA CallsKeep ==
  ASSUME HostInv, NEW v \in Vms, Calls(v)
  PROVE  HostInv'
<1>0. rows[v] \in Row
  BY DEF HostInv, HostType
<1>1. CASE Create(v)
  BY <1>1, CreateKeeps
<1>2. CASE Start(v)
  <2> DEFINE row == [rows[v] EXCEPT !.state = "creating"]
             step == IF v \in Containers THEN "launch" ELSE "network"
  <2>1. v \in Known /\ op = Idle /\ Up /\ UNCHANGED <<meta, agent, World>> /\ Save(v, row)
        /\ Begin("start", v, step, row, rows[v].state)
    BY <1>2 DEF Start, Ready, Startable, Known
  <2>2. row \in Row /\ row.state = "creating" /\ row.ip = rows[v].ip /\ row.ports = rows[v].ports
        /\ rows[v].state \in States
    BY <1>0 DEF Row, States
  <2>3. SameRows
    BY <2>1, <2>2, SaveKeeps
  <2>4. step \in Endings \union Buildings /\ step \notin Endings \union {"seed"}
    BY DEF Endings, Cleanings, Buildings
  <2> QED BY <2>1, <2>2, <2>3, <2>4, Begins DEF Endings
<1>3. CASE Stop(v)
  <2>1. v \in Known /\ op = Idle /\ Up /\ UNCHANGED <<meta, agent, World, rows>>
        /\ Begin("stop", v, "end", rows[v], rows[v].state)
    BY <1>3 DEF Stop, Ready, Known, Database
  <2>2. rows[v].state # "absent" /\ rows[v].state \in States
    BY <1>0, <2>1 DEF Known, Row
  <2>3. "end" \in Endings /\ "end" \notin Cleanings
    BY DEF Endings, Cleanings
  <2> QED BY <1>0, <2>1, <2>2, <2>3, StayKeeps, Begins
<1>4. CASE Destroy(v)
  BY <1>4, DestroyBegins DEF Destroy
<1> QED BY <1>1, <1>2, <1>3, <1>4 DEF Calls

LEMMA ReconcileKeeps ==
  ASSUME HostInv, NEW v \in Vms, Reconcile(v)
  PROVE  HostInv'
<1> DEFINE row == Observed(v)
           was == rows[v].state
<1>0. v \in Known /\ op = Idle /\ Up /\ UNCHANGED <<meta, agent, World>> /\ rows[v] \in Row
      /\ live[v] \in Guest /\ was \in States \ {"absent"}
  BY DEF Reconcile, Scans, Ready, HostInv, HostType, Known, Row
<1>1. row \in Row /\ row.ip = rows[v].ip /\ row.ports = rows[v].ports /\ row.state # "absent"
  BY <1>0 DEF Observed, Actual, Row, States, Errors, RecoveryOwned, None, Guest
<1>2. CASE was = "deleting" /\ Destroys(v)
  BY <1>0, <1>2, DestroyBegins DEF Reconcile, Scans
<1>3. CASE v \notin Containers /\ Begin("reconcile", v, "network", row, was) /\ UNCHANGED rows
  <2>1. "network" \in Buildings /\ "network" \notin Endings \union Cleanings
    BY DEF Buildings, Endings, Cleanings
  <2> QED BY <1>0, <1>1, <1>3, <2>1, StayKeeps, Begins
<1>4. CASE UNCHANGED op
  BY <1>0, <1>4, ScanSame, Finishes DEF World, HostInv, HostType, BindingInv, Up
<1> QED BY <1>2, <1>3, <1>4 DEF Reconcile

-----------------------------------------------------------------------------

LEMMA AbortRows ==
  ASSUME HostInv, op # Idle, Abort
  PROVE  /\ SameRows /\ op' = Idle /\ UNCHANGED meta
         /\ agent' \in Agent /\ agent'.phase = agent.phase /\ agent'.ports = agent.ports
         /\ agent'.runtime = agent.runtime
<1> DEFINE state == IF op.call = "reconcile" THEN op.row.state ELSE "failed"
           error == IF op.call = "reconcile" THEN "network recovery failed" ELSE "operation failed"
<1>1. FailedRow = [op.row EXCEPT !.state = state, !.error = error]
  BY DEF FailedRow
<1>2. state \in States \ {"absent"} /\ error \in Errors
  BY OpRow DEF Row, States, Errors, RecoveryOwned
<1>3. SameRows
  BY <1>1, <1>2, SaveOp DEF Abort
<1>4. agent' \in Agent /\ agent'.phase = agent.phase /\ agent'.ports = agent.ports /\ agent'.runtime = agent.runtime
  BY DEF Abort, HostInv, HostType, Agent
<1> QED BY <1>3, <1>4 DEF Abort, Finish

LEMMA AbortKeeps ==
  ASSUME HostInv, op # Idle, Abort, UNCHANGED <<held, live, denied>>, RulesInv' \/ UNCHANGED forwards
  PROVE  HostInv'
<1>1. Known' = Known /\ AddressInv' /\ RulesInv'
  BY AbortRows, RowsSame
<1>2. HostType' /\ HeldInv' /\ BindingInv'
  BY <1>1, AbortRows DEF HostInv, HostType, SameRows, HeldInv, HeldRule, BindingInv, Up
<1> QED BY <1>1, <1>2, AbortRows DEF HostInv, OpInv, CleanInv

LEMMA StayRules ==
  ASSUME HostInv, UNCHANGED <<rows, forwards, denied>>
  PROVE  RulesInv'
BY StayKeeps, RowsSame

LEMMA RestoringKeeps == HostInv /\ Restoring => HostInv'
<1> SUFFICES ASSUME HostInv, Restoring PROVE HostInv'
  OBVIOUS
<1>0. op # Idle /\ op.at \in Buildings /\ op.at # "seed"
  BY DEF Restoring, Isolate, Tap, Unforward, Forward, ForwardFails, Fails, Deny, Ingress, Proceeds, At, Idle,
     None, Buildings
<1> USE DEF Proceeds, Gain, V, Database, Rules
<1>1. CASE Isolate
  BY <1>0, <1>1, Builds, StayRules DEF Isolate, Buildings, Files
<1>2. CASE Tap
  BY <1>0, <1>2, Builds, StayRules DEF Tap, Buildings, Files
<1>3. CASE Unforward
  BY <1>0, <1>3, Builds, StayKeeps, RowsSame DEF Unforward, Buildings
<1>4. CASE Forward
  <2>1. RulesInv'
    BY <1>0, <1>4, OpRow DEF Forward, HostInv, RulesInv, Known
  <2> QED BY <1>0, <1>4, <2>1, Builds DEF Forward, Buildings
<1>5. CASE ForwardFails
  <2> PICK ports \in SUBSET op.row.ports : forwards' = forwards \union (ports \X {op.row.ip})
    BY <1>5 DEF ForwardFails
  <2>1. UNCHANGED <<held, live, denied>> /\ Abort
    BY <1>5 DEF ForwardFails, Fails
  <2>2. \A v \in Vms : rows'[v].ip = rows[v].ip /\ rows'[v].ports = rows[v].ports
    BY <1>0, <2>1, OpRow DEF Abort, FailedRow, Save, HostInv, HostType, Row
  <2>3. Known' = Known
    BY <1>0, <2>1, OpRow DEF Abort, FailedRow, Save, HostInv, HostType, Row, Known
  <2>4. RulesInv'
    BY <1>0, <2>1, <2>2, <2>3, OpRow DEF HostInv, RulesInv, Known
  <2> QED BY <1>0, <2>1, <2>4, AbortKeeps
<1>6. CASE Deny
  <2>1. RulesInv'
    BY <1>0, <1>6, OpRow DEF Deny, DeniedAfter, HostInv, RulesInv, Known
  <2> QED BY <1>0, <1>6, <2>1, Builds DEF Deny, Buildings
<1>7. CASE Ingress
  BY <1>0, <1>7, Builds, StayRules DEF Ingress, Buildings, Files
<1> QED BY <1>1, <1>2, <1>3, <1>4, <1>5, <1>6, <1>7 DEF Restoring

\* A runtime is gained by the container it made.
LEMMA RuntimeGained ==
  ASSUME HostInv, op # Idle, op.at = "launch", ~Missing, V \in Containers
  PROVE  agent.runtime \in Runtimes /\ agent.runtime = meta.runtime
<1>1. op.call \in {"create", "start"} /\ agent.phase = "up"
  BY OpRow DEF HostInv, OpInv, V, Op, Endings, Cleanings, Up
<1>2. agent.runtime # None
  BY <1>1, OpRow, AgentHostAssumption DEF HostInv, OpInv, HostType, Missing, Reachable, Things, V, Files, None
<1> QED BY <1>1, <1>2 DEF HostInv, HostType, Agent, BindingInv

\* The engine's part: the files or the container, and perhaps the guest.
LEMMA Launched ==
  ASSUME HostInv, op # Idle, op.at = "launch", ~Missing, SameRows, op' = Idle,
         UNCHANGED <<meta, forwards, denied>>, agent' \in Agent, agent'.phase = agent.phase,
         agent'.ports = agent.ports, agent'.runtime = agent.runtime,
         IF V \in Containers THEN Gain(agent.runtime) ELSE Gain("run"),
         live' \in {live, [live EXCEPT ![V] = "running"]}
  PROVE  HostInv'
<1> DEFINE thing == IF V \in Containers THEN agent.runtime ELSE "run"
<1>0. V \in Known /\ V \in Vms
  BY OpRow
<1>1. thing \in Things /\ (V \notin Containers => thing \notin Runtimes) /\ (V \in Containers => thing = meta.runtime /\ thing \in Runtimes)
  BY RuntimeGained, AgentHostAssumption DEF Things, Files
<1>2. held' = [held EXCEPT ![V] = @ \union {thing}]
  BY DEF Gain
<1>3. HostType'
  BY <1>0, <1>1, <1>2 DEF HostInv, HostType, SameRows, Guest
<1>4. Known' = Known /\ AddressInv' /\ RulesInv'
  BY RowsSame
<1>5. \A v \in Vms \ {V} : held'[v] = held[v] /\ live'[v] = live[v]
  BY <1>0, <1>2 DEF HostInv, HostType
<1>6. held'[V] = held[V] \union {thing}
  BY <1>0, <1>2 DEF HostInv, HostType
<1>7. HeldInv'
  BY <1>0, <1>1, <1>4, <1>5, <1>6 DEF HostInv, HeldInv, HeldRule
<1> QED BY <1>3, <1>4, <1>7 DEF HostInv, BindingInv, Up, OpInv, CleanInv

LEMMA CreatingKeeps == HostInv /\ Creating => HostInv'
<1> SUFFICES ASSUME HostInv, Creating PROVE HostInv'
  OBVIOUS
<1>0. op # Idle /\ op.at \in Buildings
  BY DEF Creating, Seed, EnsureNetwork, Clone, Fill, CopyFails, NothingToLaunch, Launch, LaunchFails, Fails,
     Proceeds, At, Idle, None, Buildings
<1> USE DEF Proceeds, Gain, V, Database, Rules
<1>1. CASE Seed
  BY <1>0, <1>1, Builds, StayRules DEF Seed, Buildings, Files
<1>2. CASE EnsureNetwork
  BY <1>0, <1>2, Builds, StayRules DEF EnsureNetwork, AfterNetwork, Buildings
<1>3. CASE Clone
  BY <1>0, <1>3, Builds, StayRules DEF Clone, Buildings, Files
<1>4. CASE Fill
  BY <1>0, <1>4, Builds, StayRules DEF Fill, Buildings, Files
<1>5. CASE CopyFails
  BY <1>0, <1>5, AbortKeeps DEF CopyFails, Fails, World
<1>6. CASE NothingToLaunch
  BY <1>0, <1>6, AbortKeeps DEF NothingToLaunch, World
<1>7. CASE Launch
  <2>1. SameRows
    BY <1>0, <1>7, SaveOp DEF Launch, States, Errors
  <2> QED BY <1>0, <1>7, <2>1, Launched DEF Launch, At, Finish, HostInv, HostType
<1>8. CASE LaunchFails
  <2>1. CASE UNCHANGED World
    BY <1>0, <1>8, <2>1, AbortKeeps DEF LaunchFails, Fails, World
  <2>2. CASE ~UNCHANGED World
    <3>1. Abort /\ op.at = "launch" /\ ~Missing /\ UNCHANGED <<forwards, denied>>
          /\ (IF V \in Containers THEN Gain(agent.runtime) ELSE Gain("run"))
          /\ live' \in {live, [live EXCEPT ![V] = "running"]}
      BY <1>8, <2>2 DEF LaunchFails, Fails, At
    <3> QED BY <1>0, <3>1, AbortRows, Launched
  <2> QED BY <2>1, <2>2
<1> QED BY <1>1, <1>2, <1>3, <1>4, <1>5, <1>6, <1>7, <1>8 DEF Creating

LEMMA EndingKeeps == HostInv /\ Ending => HostInv'
<1> SUFFICES ASSUME HostInv, Ending PROVE HostInv'
  OBVIOUS
<1>0. op # Idle /\ op.at \in {"end", "stopped"}
  <2>1. op.at \in {"end", "stopped"}
    BY DEF Ending, End, EndFails, Stopped, Proceeds, At
  <2> QED BY <2>1, AtWork DEF None
<1>1. CASE End
  <2> DEFINE next == IF op.call = "stop" THEN "stopped" ELSE "unload"
  <2>1. op \in Op /\ V \in Vms /\ next \in Endings /\ V = op.vm
    BY <1>0, OpRow DEF Endings, Cleanings, V
  <2>2. op' \in Op /\ op'.at = next /\ op'.vm = op.vm /\ op'.row = op.row /\ op'.call = op.call
        /\ op'.failed = op.failed
    BY <1>1, <2>1 DEF End, Proceeds, Go, Op
  <2>3. UNCHANGED <<rows, meta, agent, held, forwards, denied>>
    BY <1>1 DEF End, Proceeds, Database, Rules
  <2>4. Known' = Known /\ AddressInv' /\ RulesInv'
    BY <2>3, StayKeeps, RowsSame
  <2>5. live' \in [Vms -> Guest] /\ \A v \in Vms : live'[v] \in {live[v], "stopped"}
    BY <1>1, <2>1 DEF End, HostInv, HostType, Guest
  <2>6. live'[V] = "stopped"
    <3>1. CASE Reachable(V)
      BY <1>1, <2>1, <3>1 DEF End, HostInv, HostType
    <3>2. CASE ~Reachable(V)
      <4>1. agent.runtime = meta.runtime
        BY <1>0 DEF HostInv, OpInv, BindingInv, Up
      <4> QED BY <1>1, <2>1, <3>2, <4>1 DEF End, Reachable, HostInv, HeldInv, HeldRule
    <3> QED BY <3>1, <3>2
  <2>7. HostType' /\ HeldInv' /\ BindingInv'
    BY <2>2, <2>3, <2>4, <2>5 DEF HostInv, HostType, HeldInv, HeldRule, BindingInv, Up
  <2>8. OpInv'
    BY <1>0, <2>1, <2>2, <2>3, <2>4 DEF HostInv, OpInv, Up, Endings, Buildings, Cleanings
  <2>9. CleanInv'
    BY <2>1, <2>2, <2>6 DEF CleanInv, Cleanings
  <2> QED BY <2>4, <2>7, <2>8, <2>9 DEF HostInv
<1>2. CASE EndFails
  <2>3. SameRows
    BY <1>0, <1>2, EndSame
  <2>4. live' \in [Vms -> Guest] /\ \A v \in Vms : live'[v] \in {live[v], "stopped"}
    BY <1>2 DEF EndFails, HostInv, HostType, Guest
  <2> QED BY <1>2, <2>3, <2>4, Finishes DEF EndFails, Finish, Rules, HostInv, HostType, BindingInv, Up
<1>3. CASE Stopped
  <2>1. SameRows
    BY <1>0, <1>3, EndSame
  <2> QED BY <1>3, <2>1, Finishes DEF Stopped, Finish, World, HostInv, HostType, BindingInv, Up
<1> QED BY <1>1, <1>2, <1>3 DEF Ending

LEMMA CleaningKeeps == HostInv /\ Cleaning => HostInv'
<1> SUFFICES ASSUME HostInv, Cleaning PROVE HostInv'
  OBVIOUS
<1>0. op # Idle /\ op.at \in Cleanings
  <2>1. op.at \in Cleanings
    BY DEF Cleaning, Unload, Unpublish, Release, Allow, Untap, Unisolate, RemoveDisk, Cleans, CleanupFails, Conclude,
       Proceeds, At, Cleanings, After
  <2> QED BY <2>1, AtWork DEF Cleanings, None
<1>a. op \in Op /\ V \in Known /\ V \in Vms /\ V = op.vm
  BY <1>0, OpRow DEF V
<1>b. ASSUME NEW step \in Cleanings \ {"conclude"}, Proceeds(step, After[step])
      PROVE  /\ op.at = step /\ step \in DOMAIN After /\ op' = [op EXCEPT !.at = After[op.at], !.failed = op.failed]
             /\ UNCHANGED <<rows, meta>>
  <2>1. op = [op EXCEPT !.failed = op.failed]
    BY <1>a DEF Op
  <2> QED BY <1>a, <1>b, <2>1 DEF Proceeds, At, Go, Database, After, Cleanings, Op
<1>c. ASSUME NEW step \in {"unpublish", "untap", "unisolate", "remove"}, NEW things \in SUBSET Things,
             Cleans(step, things),
             step = "unpublish" => "ingress" \in things, step = "untap" => "tap" \in things,
             step = "unisolate" => "isolation" \in things, step = "remove" => {"part", "disk"} \subseteq things
      PROVE  HostInv'
  <2>1. Proceeds(step, After[step]) /\ Drops(things)
        /\ UNCHANGED <<agent, live, forwards, denied>>
    BY <1>a, <1>c DEF Cleans, Lose, Rules, Drops
  <2>2. step \in Cleanings \ {"conclude"}
    BY DEF Cleanings
  <2>3. Took(things)
    BY <1>b, <1>c, <2>1, <2>2 DEF Took
  <2>4. op.at \in DOMAIN After /\ UNCHANGED <<rows, meta>>
        /\ op' = [op EXCEPT !.at = After[op.at], !.failed = op.failed]
    BY <1>b, <2>1, <2>2
  <2>5. RulesInv'
    BY <2>1, <2>4, StayRules
  <2> QED BY <1>0, <2>1, <2>3, <2>4, <2>5, Cleaned
<1>1. CASE Unload
  <2> DEFINE things == {"run"} \union (IF V \in Containers THEN {agent.runtime} ELSE {})
             gone == things \intersect Things
  <2>1. Proceeds("unload", After["unload"]) /\ held' = [held EXCEPT ![V] = @ \ things]
        /\ UNCHANGED <<agent, live, forwards, denied>>
    BY <1>1 DEF Unload, Cleans, Lose, Rules
  <2>2. held[V] \subseteq Things /\ Drops(gone) /\ gone \in SUBSET Things
    BY <1>a, <2>1 DEF HostInv, HostType, Drops
  <2>3. agent.runtime = meta.runtime
    BY <1>0 DEF HostInv, OpInv, BindingInv, Up
  <2>4. held'[V] \intersect ({"run"} \union Runtimes) = {}
    BY <1>a, <2>1, <2>3 DEF HostInv, HostType, HeldInv, HeldRule
  <2>5. "unload" \in Cleanings \ {"conclude"}
    BY DEF Cleanings
  <2>6. op.at = "unload" /\ op.at \in DOMAIN After /\ UNCHANGED <<rows, meta>>
        /\ op' = [op EXCEPT !.at = After[op.at], !.failed = op.failed]
    BY <1>b, <2>1, <2>5
  <2>7. Took(gone) /\ RulesInv'
    BY <1>a, <2>1, <2>4, <2>6, StayRules DEF Took
  <2> QED BY <1>0, <1>a, <2>1, <2>2, <2>6, <2>7, Cleaned
<1>2. CASE Unpublish
  BY <1>2, <1>c DEF Unpublish, Things, Files
<1>3. CASE Release
  <2>1. Proceeds("release", After["release"]) /\ UNCHANGED <<agent, held, live, denied>> /\ forwards' = forwards \ Mine
    BY <1>3 DEF Release
  <2>2. forwards' \subseteq forwards /\ \A f \in forwards' : f[2] # op.row.ip
    BY <2>1 DEF Mine
  <2>3. "release" \in Cleanings \ {"conclude"} /\ UNCHANGED rows
    BY <2>1 DEF Cleanings, Proceeds, Database
  <2>4. RulesInv'
    BY <2>1, <2>2, <2>3, StayKeeps, RowsSame
  <2>5. Drops({}) /\ {} \in SUBSET Things
    BY <1>a, <2>1 DEF HostInv, HostType, Drops
  <2>6. op.at = "release" /\ op.at \in DOMAIN After /\ UNCHANGED <<rows, meta>>
        /\ op' = [op EXCEPT !.at = After[op.at], !.failed = op.failed]
    BY <1>b, <2>1, <2>3
  <2>7. Took({})
    BY <2>1, <2>2, <2>6 DEF Took
  <2> QED BY <1>0, <2>1, <2>2, <2>4, <2>5, <2>6, <2>7, Cleaned
<1>4. CASE Allow
  <2>1. Proceeds("allow", After["allow"]) /\ UNCHANGED <<agent, held, live, forwards>> /\ denied' = denied \ {op.row.ip}
    BY <1>4 DEF Allow
  <2>3. "allow" \in Cleanings \ {"conclude"} /\ UNCHANGED rows
    BY <2>1 DEF Cleanings, Proceeds, Database
  <2>4. RulesInv'
    BY <2>1, <2>3, StayKeeps, RowsSame
  <2>5. Drops({}) /\ {} \in SUBSET Things
    BY <1>a, <2>1 DEF HostInv, HostType, Drops
  <2>6. op.at = "allow" /\ op.at \in DOMAIN After /\ UNCHANGED <<rows, meta>>
        /\ op' = [op EXCEPT !.at = After[op.at], !.failed = op.failed]
    BY <1>b, <2>1, <2>3
  <2>7. Took({})
    BY <2>1, <2>6 DEF Took
  <2> QED BY <1>0, <2>1, <2>4, <2>5, <2>6, <2>7, Cleaned
<1>5. CASE Untap
  BY <1>5, <1>c DEF Untap, Things, Files
<1>6. CASE Unisolate
  BY <1>6, <1>c DEF Unisolate, Things, Files
<1>7. CASE RemoveDisk
  BY <1>7, <1>c DEF RemoveDisk, Things, Files
<1>8. CASE CleanupFails
  <2>1. Drops({}) /\ {} \in SUBSET Things
    BY <1>a, <1>8 DEF CleanupFails, World, HostInv, HostType, Drops
  <2>2. op' = [op EXCEPT !.at = After[op.at], !.failed = TRUE] /\ op.at \in DOMAIN After
        /\ UNCHANGED <<rows, meta, agent, live, forwards, denied>>
    BY <1>8 DEF CleanupFails, World, Database
  <2>3. RulesInv'
    BY <2>2, StayRules
  <2> QED BY <1>0, <2>1, <2>2, <2>3, Cleaned
<1>9. CASE Conclude
  <2>0. op.at = "conclude" /\ op' = Idle /\ UNCHANGED <<meta, agent, live, forwards, denied>>
    BY <1>9 DEF Conclude, At, Finish, Rules
  <2>1. CASE ~Deletable
    <3>1. Save(V, [op.row EXCEPT !.error = "operation failed"]) /\ UNCHANGED held
      BY <1>9, <2>1 DEF Conclude
    <3>2. op.row.state \in States \ {"absent"} /\ op.row \in Row /\ "operation failed" \in Errors
      BY <1>0, OpRow DEF Row, Errors
    <3>3. [op.row EXCEPT !.error = "operation failed"]
            = [op.row EXCEPT !.state = op.row.state, !.error = "operation failed"]
      BY <3>2 DEF Row
    <3>4. SameRows
      BY <1>0, <3>1, <3>2, <3>3, SaveOp
    <3> QED BY <2>0, <3>1, <3>4, Finishes DEF HostInv, HostType, BindingInv, Up
  <2>2. CASE Deletable
    <3>1. rows' = [rows EXCEPT ![V] = NoRow] /\ held' = [held EXCEPT ![V] = @ \ {"seed"}] /\ ~op.failed
      BY <1>9, <2>2 DEF Conclude, Save, Lose, Deletable
    <3>2. NoRow \in Row
      BY DEF NoRow, Row, States, Errors, NoIp
    <3>3. rows' \in [Vms -> Row] /\ Known' = Known \ {V} /\ \A v \in Vms \ {V} : rows'[v] = rows[v]
      BY <1>a, <3>1, <3>2 DEF HostInv, HostType, Known, NoRow
    <3>4. held[V] \intersect (Runtimes \union {"run", "ingress", "tap", "isolation", "part", "disk"}) = {}
          /\ live[V] = "stopped" /\ op.row.ip \notin denied /\ \A f \in forwards : f[2] # op.row.ip
      BY <1>0, <1>a, <2>0, <3>1 DEF HostInv, CleanInv
    <3>5. held'[V] = {} /\ \A v \in Vms \ {V} : held'[v] = held[v]
      BY <1>a, <3>1, <3>4 DEF HostInv, HostType, Things, Files
    <3>6. AddressInv'
      BY <2>0, <3>3 DEF HostInv, AddressInv, AddressesUnique, Known
    <3>7. HeldInv'
      BY <2>0, <3>3, <3>4, <3>5 DEF HostInv, HeldInv, HeldRule
    <3>8. RulesInv'
      BY <1>0, <2>0, <3>3, <3>4, OpRow DEF HostInv, RulesInv, Known
    <3>9. HostType'
      BY <1>a, <2>0, <3>1, <3>3 DEF HostInv, HostType
    <3> QED BY <2>0, <3>6, <3>7, <3>8, <3>9 DEF HostInv, BindingInv, Up, OpInv, CleanInv
  <2> QED BY <2>1, <2>2
<1> QED BY <1>1, <1>2, <1>3, <1>4, <1>5, <1>6, <1>7, <1>8, <1>9 DEF Cleaning

LEMMA SettleKeeps == HostInv /\ Settle => HostInv'
<1> SUFFICES ASSUME HostInv, Settle PROVE HostInv'
  OBVIOUS
<1>0. op # Idle
  BY DEF Settle, At, Idle, None
<1>1. SameRows
  BY <1>0, SettleSame
<1> QED BY <1>1, Finishes DEF Settle, Finish, World, HostInv, HostType, BindingInv, Up

\* Nothing that happens to guests and rows makes a VM hold more.
LEMMA EventsKeep ==
  ASSUME HostInv, NEW v \in Vms, Events(v)
  PROVE  HostInv'
<1>1. ASSUME NEW error \in Errors, NEW readable \in BOOLEAN, op = Idle, UNCHANGED <<op, meta, agent, World>>,
             v \in Known, Save(v, [rows[v] EXCEPT !.error = error, !.readable = readable])
      PROVE  HostInv'
  <2>1. SameRows
    BY <1>1, EventSame
  <2> QED BY <1>1, <2>1, Finishes DEF World, HostInv, HostType, BindingInv, Up
<1>2. CASE QueryFails(v)
  <2>1. [rows[v] EXCEPT !.error = "cannot query engine"]
          = [rows[v] EXCEPT !.error = "cannot query engine", !.readable = rows[v].readable]
    BY DEF HostInv, HostType, Row
  <2>2. rows[v].readable \in BOOLEAN /\ "cannot query engine" \in Errors
    BY DEF HostInv, HostType, Row, Errors, RecoveryOwned
  <2> QED BY <1>1, <1>2, <2>1, <2>2 DEF QueryFails, Scans, Ready
<1>3. CASE Damage(v)
  <2>1. [rows[v] EXCEPT !.readable = FALSE] = [rows[v] EXCEPT !.error = rows[v].error, !.readable = FALSE]
    BY DEF HostInv, HostType, Row
  <2>2. rows[v].error \in Errors
    BY DEF HostInv, HostType, Row
  <2> QED BY <1>1, <1>3, <2>1, <2>2 DEF Damage, Ready
<1>4. CASE GuestEnds(v) \/ Pauses(v)
  <2>1. UNCHANGED <<rows, meta, agent, op, held, forwards, denied>>
    BY <1>4 DEF GuestEnds, Pauses, Database, Rules
  <2>2. live' \in [Vms -> Guest] /\ (\A w \in Vms : live[w] = "stopped" => live'[w] = "stopped")
    BY <1>4 DEF GuestEnds, Pauses, HostInv, HostType, Guest
  <2>3. Known' = Known /\ AddressInv' /\ RulesInv'
    BY <2>1, StayKeeps, RowsSame
  <2>4. HeldInv'
    BY <2>1, <2>2, <2>3 DEF HostInv, HeldInv, HeldRule
  <2>5. CleanInv'
    BY <2>1, <2>2 DEF HostInv, HostType, OpInv, CleanInv, Known
  <2> QED BY <2>1, <2>2, <2>3, <2>4, <2>5 DEF HostInv, HostType, BindingInv, OpInv, Up
<1> QED BY <1>2, <1>3, <1>4 DEF Events

LEMMA HostFails == HostInv /\ (Crash \/ Reload \/ Reboot) => HostInv'
<1> SUFFICES ASSUME HostInv, Crash \/ Reload \/ Reboot PROVE HostInv'
  OBVIOUS
<1>1. UNCHANGED <<rows, meta>> /\ op' = Idle
  <2>1. CASE Reload
    BY <2>1 DEF Reload, Database, HostInv, OpInv, Up
  <2>2. CASE Crash \/ Reboot
    BY <2>2 DEF Crash, Reboot, Database
  <2> QED BY <2>1, <2>2
<1>2. agent' \in Agent /\ agent'.phase = "down"
  <2>1. Down \in Agent /\ Down.phase = "down"
    BY DEF Down, Agent
  <2>2. CASE Reload
    BY <2>2 DEF Reload, HostInv, HostType
  <2>3. CASE Crash \/ Reboot
    BY <2>1, <2>3 DEF Crash, Reboot
  <2> QED BY <2>2, <2>3
<1>3. forwards' \subseteq forwards /\ denied' \subseteq denied
  BY DEF Crash, Reload, Reboot, NoRules, World
<1>4. live' \in [Vms -> Guest] /\ \A v \in Vms : live'[v] \in {live[v], "stopped"}
  BY DEF Crash, Reload, Reboot, World, HostInv, HostType, Guest
<1>5. held' \in [Vms -> SUBSET Things] /\ \A v \in Vms : held'[v] \subseteq held[v] /\ held'[v] \intersect Runtimes = held[v] \intersect Runtimes
  <2>1. \A v \in Vms : held'[v] \subseteq held[v] /\ held[v] \ held'[v] \subseteq {"isolation", "ingress", "tap"}
    BY DEF Crash, Reload, Reboot, World, Flushed, InFirewall, HostInv, HostType
  <2>2. held' \in [Vms -> SUBSET Things]
    BY DEF Crash, Reload, Reboot, World, Flushed, HostInv, HostType
  <2> QED BY <2>1, <2>2, AgentHostAssumption DEF Files
<1>6. Known' = Known /\ AddressInv' /\ RulesInv'
  BY <1>1, <1>3, StayKeeps, RowsSame
<1>7. HeldInv'
  BY <1>1, <1>4, <1>5, <1>6 DEF HostInv, HeldInv, HeldRule
<1> QED BY <1>1, <1>2, <1>4, <1>5, <1>6, <1>7 DEF HostInv, HostType, BindingInv, Up, OpInv, CleanInv

LEMMA HostNextInv == HostInv /\ [Next]_vars => HostInv'
<1> SUFFICES ASSUME HostInv, [Next]_vars PROVE HostInv'
  OBVIOUS
<1>1. CASE StepFails
  <2>1. op # Idle /\ Abort /\ UNCHANGED World
    BY <1>1 DEF StepFails, Fails, At, Idle, None
  <2> QED BY <2>1, AbortKeeps DEF World
<1>2. CASE UNCHANGED vars
  BY <1>2, StayKeeps, RowsSame DEF vars, HostInv, HostType, BindingInv, Up, HeldInv, HeldRule, OpInv, CleanInv
<1> QED
  BY <1>1, <1>2, StartingKeeps, CallsKeep, ReconcileKeeps, RestoringKeeps, CreatingKeeps, EndingKeeps,
     CleaningKeeps, SettleKeeps, EventsKeep, HostFails DEF Next, Works

-----------------------------------------------------------------------------

\* What the rows, the host and the operation under way say of each other.
THEOREM HostInvariant == Spec => []HostInv
BY HostInitInv, HostNextInv, PTL DEF Spec

\* No two rows share an address or a host port.
THEOREM AddressesAreUnique == Spec => []AddressesUnique
<1>1. HostInv => AddressesUnique  BY DEF HostInv, AddressInv
<1> QED BY <1>1, HostInvariant, PTL

\* Whatever the host holds has a row to find it by.
THEOREM NothingIsOrphaned == Spec => []NothingOrphaned
<1>1. HostInv => NothingOrphaned  BY DEF HostInv, HeldInv, HeldRule, RulesInv, NothingOrphaned
<1> QED BY <1>1, HostInvariant, PTL

\* A serving agent uses the range and the runtime its rows came from.
THEOREM BindingsAreKept == Spec => []BindingsKept
<1>1. HostInv => BindingsKept
  BY DEF HostInv, AddressInv, BindingInv, HeldInv, HeldRule, BindingsKept, Up, Known
<1> QED BY <1>1, HostInvariant, PTL

-----------------------------------------------------------------------------
(* Guests *)

Wired == {"unforward", "forward", "deny", "ingress", "launch", "settle"}

\* A guest's disk and tap; a guarded one's isolation and denied address.
GuestRule(v) ==
  v \notin Containers /\ live[v] # "stopped" =>
    /\ "part" \in held[v]
    /\ "tap" \in held[v]
    /\ v \in Guarded /\ v \notin exposed => "isolation" \in held[v] /\ rows[v].ip \in denied
GuestInv == \A v \in Vms : GuestRule(v)

\* The address of a VM with a tap is its own, and a denied one is not another's.
IpInv == \A v \in Known \ Containers : rows[v].ip # NoIp

\* How far the operation under way has restored its VM.
StageInv ==
  op # Idle /\ op.vm \notin Containers =>
    /\ op.at \in Wired => "tap" \in held[op.vm]
    /\ op.at \in Wired \union {"tap"} /\ op.vm \in Guarded => "isolation" \in held[op.vm]
    /\ op.at \in {"ingress", "launch", "settle"} /\ op.vm \in Guarded => op.row.ip \in denied

GuardInv == IpInv /\ GuestInv /\ StageInv

LEMMA GuardInit == Init => GuardInv
<1> SUFFICES ASSUME Init PROVE GuardInv
  OBVIOUS
<1>1. Known = {} /\ op = Idle /\ \A v \in Vms : live[v] = "stopped"
  BY DEF Init, Known, NoRow
<1> QED BY <1>1 DEF GuardInv, IpInv, GuestInv, GuestRule, StageInv

\* A step that takes nothing a guest needs, and starts no guest.
LEMMA GuardStays ==
  ASSUME HostInv, HostInv', GuardInv,
         \A v \in Vms : rows'[v].ip = rows[v].ip, Known' \subseteq Known,
         \A v \in Vms : live'[v] # "stopped" =>
            live[v] # "stopped" /\ held[v] \subseteq held'[v] /\ (v \in exposed => v \in exposed'),
         \A v \in Guarded : live'[v] # "stopped" /\ v \notin exposed' /\ rows[v].ip \in denied => rows[v].ip \in denied'
  PROVE  IpInv' /\ GuestInv'
<1>1. Guarded \subseteq Vms
  BY AgentHostAssumption
<1> QED BY <1>1 DEF GuardInv, IpInv, GuestInv, GuestRule, Known

\* A step of a creation, a start or a recovery.
LEMMA GuardBuilds ==
  ASSUME HostInv, HostInv', GuardInv, op # Idle, op.at \in Buildings, NEW next \in Buildings, Go(next),
         UNCHANGED <<rows, live, exposed>>,
         \A v \in Vms : held[v] \subseteq held'[v], denied \subseteq denied' \union {op.row.ip},
         op.vm \in Guarded => denied \subseteq denied',
         op.vm \notin Containers =>
           /\ next \in Wired => op.at \in Wired \/ "tap" \in held'[op.vm]
           /\ next \in Wired \union {"tap"} /\ op.vm \in Guarded =>
                op.at \in Wired \union {"tap"} \/ "isolation" \in held'[op.vm]
           /\ next \in {"ingress", "launch", "settle"} /\ op.vm \in Guarded =>
                op.at \in {"ingress", "launch", "settle"} \/ op.row.ip \in denied'
  PROVE  GuardInv'
<1>1. op \in Op /\ op.vm \in Known /\ op.vm \in Vms /\ op.row.ip = rows[op.vm].ip
  BY OpRow DEF V
<1>2. op' = [op EXCEPT !.at = next] /\ op'.at = next /\ op'.vm = op.vm /\ op'.row = op.row
  BY <1>1 DEF Go, Op
<1>3. \A v \in Guarded : live[v] # "stopped" /\ rows[v].ip \in denied => rows[v].ip \in denied'
  <2> SUFFICES ASSUME NEW v \in Guarded, live[v] # "stopped", rows[v].ip \in denied, rows[v].ip \notin denied'
               PROVE  FALSE
    OBVIOUS
  <2>1. v \in Vms \ Containers /\ rows[v].ip = rows[op.vm].ip /\ op.vm \notin Guarded
    BY <1>1, AgentHostAssumption
  <2>2. v \in Known
    BY <2>1 DEF HostInv, HeldInv, HeldRule
  <2>3. v # op.vm /\ rows[v].ip # NoIp
    BY <2>1, <2>2 DEF GuardInv, IpInv
  <2> QED BY <1>1, <2>1, <2>2, <2>3 DEF HostInv, AddressInv, AddressesUnique
<1>4. Known' = Known
  BY DEF Known
<1>5. IpInv' /\ GuestInv'
  BY <1>3, <1>4, GuardStays
<1>6. StageInv'
  BY <1>1, <1>2 DEF GuardInv, StageInv
<1> QED BY <1>5, <1>6 DEF GuardInv

\* An operation ends, its rows' addresses kept and its guest as it was, or stopped.
LEMMA GuardEnds ==
  ASSUME HostInv, HostInv', GuardInv, op' = Idle, \A v \in Vms : rows'[v].ip = rows[v].ip, Known' \subseteq Known,
         held' = held, denied' = denied,
         \A v \in Vms : live'[v] # "stopped" => live[v] # "stopped" /\ (v \in exposed => v \in exposed')
  PROVE  GuardInv'
BY GuardStays DEF GuardInv, StageInv

LEMMA GuardNext == HostInv /\ HostInv' /\ GuardInv /\ [Next]_vars => GuardInv'
<1> SUFFICES ASSUME HostInv, HostInv', GuardInv, [Next]_vars PROVE GuardInv'
  OBVIOUS
<1>1. CASE Starting
  <2>1. op' = Idle
    BY <1>1 DEF Starting, Open, BindRuntime, BindNetwork, HostInv, OpInv, Up
  <2>a. SameRows
    BY <1>1, OpenSame, StayKeeps DEF Starting, BindRuntime, BindNetwork
  <2>2. Known' = Known
    BY <2>a, RowsSame
  <2>3. UNCHANGED World
    BY <1>1 DEF Starting, Open, BindRuntime, BindNetwork
  <2> QED BY <2>1, <2>a, <2>2, <2>3, GuardEnds DEF World, SameRows
<1>2. ASSUME NEW v \in Vms, Create(v) PROVE GuardInv'
  <2>1. PICK ports \in Allocations(v) :
       LET row == [state |-> "creating", error |-> None, ports |-> ports, readable |-> TRUE,
                   ip |-> IF v \in Containers THEN NoIp ELSE FirstIp]
       IN Save(v, row) /\ Begin("create", v, "seed", row, None)
    BY <1>2 DEF Create
  <2>2. v \notin Known /\ UNCHANGED World
    BY <1>2 DEF Create
  <2>3. rows'[v].ip = (IF v \in Containers THEN NoIp ELSE FirstIp) /\ op'.at = "seed" /\ op'.vm = v
        /\ \A w \in Vms \ {v} : rows'[w] = rows[w]
    BY <2>1 DEF Save, Begin, HostInv, HostType
  <2>4. v \notin Containers => FirstIp # NoIp
    BY <2>2, FreeIp DEF Ips, NoIp
  <2>5. live[v] = "stopped"
    BY <2>2 DEF HostInv, HeldInv, HeldRule
  <2>6. IpInv' /\ GuestInv'
    BY <2>2, <2>3, <2>4, <2>5 DEF GuardInv, IpInv, GuestInv, GuestRule, World, Known
  <2> QED BY <2>3, <2>6 DEF GuardInv, StageInv, Wired
<1>3. ASSUME NEW v \in Vms, Start(v) \/ Stop(v) \/ Destroy(v) \/ Reconcile(v) PROVE GuardInv'
  <2>1. v \in Known /\ op = Idle /\ UNCHANGED World
    BY <1>3 DEF Start, Stop, Destroy, Reconcile, Scans, Ready, Known, Startable
  <2>2. SameRows
    <3>1. CASE Reconcile(v)
      BY <3>1, ScanSame
    <3>2. CASE Start(v) \/ Stop(v) \/ Destroy(v)
      BY <2>1, <3>2, CallSame DEF Start, Stop, Destroy, Database
    <3> QED BY <1>3, <3>1, <3>2
  <2>4. Known' = Known
    BY <2>2, RowsSame
  <2>5. op' = Idle \/ op'.at \in {"network", "end"} \/ (op'.at = "launch" /\ op'.vm \in Containers)
    <3>1. ASSUME NEW call, NEW step \in {"network", "end", "launch"}, NEW row, NEW was, Begin(call, v, step, row, was)
          PROVE  op'.at = step /\ op'.vm = v
      BY <3>1 DEF Begin
    <3>2. CASE Start(v)
      BY <3>1, <3>2 DEF Start
    <3>3. CASE Stop(v)
      BY <3>1, <3>3 DEF Stop
    <3>4. ASSUME Destroys(v) PROVE op'.at = "end"
      BY <3>1, <3>4 DEF Destroys
    <3>5. CASE Reconcile(v) /\ ~Destroys(v)
      BY <2>1, <3>1, <3>5 DEF Reconcile
    <3> QED BY <1>3, <3>2, <3>3, <3>4, <3>5 DEF Destroy
  <2>6. IpInv' /\ GuestInv'
    BY <2>1, <2>2, <2>4, GuardStays DEF World, SameRows
  <2> QED BY <2>5, <2>6 DEF GuardInv, StageInv, Wired
<1>4. CASE Restoring
  <2>0. op # Idle /\ op.at \in Buildings /\ op.vm \in Vms /\ V = op.vm
    <3>1. op.at \in Buildings /\ op.at # None
      BY <1>4 DEF Restoring, Isolate, Tap, Unforward, Forward, ForwardFails, Fails, Deny, Ingress, Proceeds, At,
         None, Buildings
    <3> QED BY <3>1, AtWork, OpRow DEF V
  <2> USE DEF Proceeds, Database, Rules, At, Gain, Buildings, Wired
  <2>1. CASE Isolate
    <3>1. \A v \in Vms : held[v] \subseteq held'[v]
      BY <2>0, <2>1 DEF Isolate, HostInv, HostType
    <3>2. op.vm \in Guarded => "isolation" \in held'[op.vm]
      BY <2>0, <2>1 DEF Isolate, HostInv, HostType
    <3> QED BY <2>0, <2>1, <3>1, <3>2, GuardBuilds DEF Isolate
  <2>2. CASE Tap
    <3>1. (\A v \in Vms : held[v] \subseteq held'[v]) /\ "tap" \in held'[op.vm]
      BY <2>0, <2>2 DEF Tap, HostInv, HostType
    <3> QED BY <2>0, <2>2, <3>1, GuardBuilds DEF Tap
  <2>3. CASE Unforward
    BY <2>0, <2>3, GuardBuilds DEF Unforward
  <2>4. CASE Forward
    BY <2>0, <2>4, GuardBuilds DEF Forward
  <2>5. CASE ForwardFails
    <3>1. SameRows /\ op' = Idle
      BY <2>0, <2>5, AbortRows DEF ForwardFails, Fails
    <3>2. Known' = Known
      BY <3>1, RowsSame
    <3> QED BY <2>5, <3>1, <3>2, GuardEnds DEF ForwardFails, SameRows
  <2>6. CASE Deny
    <3>1. denied \subseteq denied' \union {op.row.ip} /\ (op.vm \in Guarded => denied \subseteq denied' /\ op.row.ip \in denied')
      BY <2>0, <2>6 DEF Deny, DeniedAfter
    <3> QED BY <2>0, <2>6, <3>1, GuardBuilds DEF Deny
  <2>7. CASE Ingress
    <3>1. \A v \in Vms : held[v] \subseteq held'[v]
      BY <2>0, <2>7 DEF Ingress, HostInv, HostType
    <3> QED BY <2>0, <2>7, <3>1, GuardBuilds DEF Ingress
  <2> QED BY <1>4, <2>1, <2>2, <2>3, <2>4, <2>5, <2>6, <2>7 DEF Restoring
<1>5. CASE Creating
  <2>0. op # Idle /\ op.at \in Buildings /\ op.vm \in Vms /\ V = op.vm
    <3>1. op.at \in Buildings /\ op.at # None
      BY <1>5 DEF Creating, Seed, EnsureNetwork, Clone, Fill, CopyFails, NothingToLaunch, Launch, LaunchFails, Fails,
         Proceeds, At, None, Buildings
    <3> QED BY <3>1, AtWork, OpRow DEF V
  <2> USE DEF Proceeds, Database, Rules, At, Gain, Buildings, Wired
  <2>1. CASE Seed
    <3>1. \A v \in Vms : held[v] \subseteq held'[v]
      BY <2>0, <2>1 DEF Seed, HostInv, HostType
    <3> QED BY <2>0, <2>1, <3>1, GuardBuilds DEF Seed
  <2>2. CASE EnsureNetwork
    BY <2>0, <2>2, GuardBuilds DEF EnsureNetwork, AfterNetwork
  <2>3. CASE Clone \/ Fill
    <3>1. \A v \in Vms : held[v] \subseteq held'[v]
      BY <2>0, <2>3 DEF Clone, Fill, HostInv, HostType
    <3> QED BY <2>0, <2>3, <3>1, GuardBuilds DEF Clone, Fill
  <2>4. CASE CopyFails \/ NothingToLaunch
    <3>1. SameRows /\ op' = Idle /\ UNCHANGED World
      BY <2>0, <2>4, AbortRows DEF CopyFails, NothingToLaunch, Fails
    <3>2. Known' = Known
      BY <3>1, RowsSame
    <3> QED BY <3>1, <3>2, GuardEnds DEF World, SameRows
  <2>5. ASSUME op.at = "launch", ~Missing, SameRows, op' = Idle, UNCHANGED <<denied, exposed>>,
               (IF V \in Containers THEN Gain(agent.runtime) ELSE Gain("run")),
               live' \in {live, [live EXCEPT ![V] = "running"]}
        PROVE  GuardInv'
    <3>1. Known' = Known
      BY <2>5, RowsSame
    <3>2. \A v \in Vms : held[v] \subseteq held'[v]
      BY <2>0, <2>5 DEF HostInv, HostType
    <3>3. \A v \in Vms \ {V} : live'[v] = live[v]
      BY <2>0, <2>5 DEF HostInv, HostType
    <3>4. V \notin Containers => "part" \in held[V] /\ "tap" \in held[V]
            /\ (V \in Guarded => "isolation" \in held[V] /\ rows[V].ip \in denied)
      BY <2>0, <2>5, OpRow DEF Missing, GuardInv, StageInv
    <3>5. GuestInv'
      BY <2>5, <3>2, <3>3, <3>4 DEF GuardInv, GuestInv, GuestRule, SameRows
    <3>6. IpInv'
      BY <2>5, <3>1 DEF GuardInv, IpInv, SameRows, Known
    <3> QED BY <2>5, <3>5, <3>6 DEF GuardInv, StageInv
  <2>6. CASE Launch
    <3>1. SameRows
      BY <2>0, <2>6, SaveOp DEF Launch, States, Errors
    <3> QED BY <2>5, <2>6, <3>1 DEF Launch, Finish
  <2>7. CASE LaunchFails
    <3>1. SameRows /\ op' = Idle
      BY <2>0, <2>7, AbortRows DEF LaunchFails, Fails
    <3>2. CASE UNCHANGED World
      <4>1. Known' = Known
        BY <3>1, RowsSame
      <4> QED BY <3>1, <3>2, <4>1, GuardEnds DEF World, SameRows
    <3>3. CASE ~UNCHANGED World
      BY <2>5, <2>7, <3>1, <3>3 DEF LaunchFails, Fails
    <3> QED BY <3>2, <3>3
  <2> QED BY <1>5, <2>1, <2>2, <2>3, <2>4, <2>6, <2>7 DEF Creating
<1>6. CASE Ending
  <2>0. op # Idle /\ op.at \in {"end", "stopped"} /\ V \in Vms /\ V = op.vm /\ op \in Op
    <3>1. op.at \in {"end", "stopped"}
      BY <1>6 DEF Ending, End, EndFails, Stopped, Proceeds, At
    <3> QED BY <3>1, AtWork, OpRow DEF V, None
  <2>1. CASE End
    <3>1. \A v \in Vms : live'[v] # "stopped" => live'[v] = live[v] /\ (v \in exposed => v \in exposed')
      <4>1. op'.vm = op.vm /\ op' # Idle /\ op'.at \in {"stopped", "unload"}
        <5>1. op'.vm = op.vm /\ op'.at \in {"stopped", "unload"}
          BY <2>0, <2>1 DEF End, Proceeds, Go, Op
        <5>2. op'.at # None
          BY <5>1 DEF None
        <5> QED BY <5>1, <5>2 DEF Idle
      <4>2. live'[V] = "stopped"
        <5>1. CASE Reachable(V)
          BY <2>0, <2>1, <5>1 DEF End, HostInv, HostType
        <5>2. CASE ~Reachable(V)
          <6>1. agent.runtime = meta.runtime
            BY <2>0 DEF HostInv, OpInv, BindingInv, Up
          <6> QED BY <2>0, <2>1, <5>2, <6>1 DEF End, Reachable, HostInv, HeldInv, HeldRule
        <5> QED BY <5>1, <5>2
      <4>3. \A v \in Vms \ {V} : live'[v] = live[v]
        BY <2>0, <2>1 DEF End, HostInv, HostType
      <4> QED BY <2>1, <4>2, <4>3 DEF End
    <3>2. UNCHANGED <<rows, held, denied>> /\ Known' = Known
      BY <2>1 DEF End, Proceeds, Database, Rules, Known
    <3>3. IpInv' /\ GuestInv'
      BY <3>1, <3>2, GuardStays
    <3>4. op'.at \in {"stopped", "unload"}
      BY <2>0, <2>1 DEF End, Proceeds, Go, Op
    <3> QED BY <3>3, <3>4 DEF GuardInv, StageInv, Wired
  <2>2. CASE EndFails \/ Stopped
    <3>1. op' = Idle /\ held' = held /\ denied' = denied
      BY <2>2 DEF EndFails, Stopped, Finish, World, Rules
    <3>2. \A v \in Vms : live'[v] # "stopped" => live[v] # "stopped" /\ (v \in exposed => v \in exposed')
      BY <2>0, <2>2, AgentHostAssumption DEF EndFails, Stopped, World, HostInv, HostType
    <3>3. SameRows
      BY <2>0, <2>2, EndSame
    <3>4. Known' = Known
      BY <3>3, RowsSame
    <3> QED BY <3>1, <3>2, <3>3, <3>4, GuardEnds DEF SameRows
  <2> QED BY <1>6, <2>1, <2>2 DEF Ending
<1>7. CASE Cleaning
  <2>0. op # Idle /\ op.at \in Cleanings /\ V \in Vms /\ V = op.vm /\ op \in Op /\ V \in Known
        /\ live[V] = "stopped" /\ op.row.ip = rows[V].ip
    <3>1. op.at \in Cleanings
      BY <1>7 DEF Cleaning, Unload, Unpublish, Release, Allow, Untap, Unisolate, RemoveDisk, Cleans, CleanupFails, Conclude,
         Proceeds, At, Cleanings, After
    <3>2. op # Idle
      BY <3>1, AtWork DEF Cleanings, None
    <3> QED BY <3>1, <3>2, OpRow DEF V, HostInv, CleanInv
  <2>1. UNCHANGED <<live, exposed>>
    BY <1>7 DEF Cleaning, Unload, Unpublish, Release, Allow, Untap, Unisolate, RemoveDisk, Cleans, CleanupFails, Conclude,
       World
  <2>2. \A v \in Vms \ {V} : held'[v] = held[v] /\ rows'[v] = rows[v]
    BY <1>7, <2>0 DEF Cleaning, Unload, Unpublish, Release, Allow, Untap, Unisolate, RemoveDisk, Cleans, CleanupFails, Conclude,
       World, Lose, Proceeds, Database, Save, HostInv, HostType
  <2>3. denied \subseteq denied' \union {op.row.ip}
    BY <1>7 DEF Cleaning, Unload, Unpublish, Release, Allow, Untap, Unisolate, RemoveDisk, Cleans, CleanupFails, Conclude,
       World, Rules
  <2>a. UNCHANGED rows \/ Conclude
    BY <1>7 DEF Cleaning, Unload, Unpublish, Release, Allow, Untap, Unisolate, RemoveDisk, Cleans, CleanupFails,
       Proceeds, Database
  <2>4. op' = Idle \/ op'.at \in Cleanings
    <3>1. CASE Conclude
      BY <3>1 DEF Conclude, Finish
    <3>2. ASSUME NEW step \in DOMAIN After, Proceeds(step, After[step]) PROVE op'.at \in Cleanings
      <4>1. After[step] \in Cleanings
        BY DEF After, Cleanings
      <4>2. op'.at = After[step]
        BY <2>0, <3>2 DEF Proceeds, Go, Op
      <4> QED BY <4>1, <4>2
    <3>3. CASE CleanupFails
      <4>1. After[op.at] \in Cleanings
        BY <3>3 DEF CleanupFails, After, Cleanings
      <4>2. op'.at = After[op.at]
        BY <2>0, <3>3 DEF CleanupFails, Op
      <4> QED BY <4>1, <4>2
    <3>4. {"unload", "unpublish", "release", "allow", "untap", "unisolate", "remove"} = DOMAIN After
      BY DEF After
    <3>5. CASE Unload \/ Unpublish \/ Untap \/ Unisolate \/ RemoveDisk
      BY <3>2, <3>4, <3>5 DEF Unload, Unpublish, Untap, Unisolate, RemoveDisk, Cleans
    <3>6. CASE Release \/ Allow
      BY <3>2, <3>4, <3>6 DEF Release, Allow
    <3> QED BY <1>7, <3>1, <3>3, <3>5, <3>6 DEF Cleaning
  <2>5. rows'[V].state # "absent" => rows'[V].ip = rows[V].ip
    <3> SUFFICES ASSUME Conclude PROVE rows'[V].state = "absent" \/ rows'[V].ip = rows[V].ip
      BY <2>a
    <3>1. CASE Deletable
      BY <2>0, <3>1 DEF Conclude, Save, NoRow, HostInv, HostType
    <3>2. CASE ~Deletable
      <4>1. rows'[V] = [op.row EXCEPT !.error = "operation failed"]
        BY <2>0, <3>2 DEF Conclude, Save, HostInv, HostType
      <4>2. op.row \in Row
        BY <2>0 DEF Op
      <4> QED BY <2>0, <4>1, <4>2 DEF Row
    <3> QED BY <3>1, <3>2
  <2>6. IpInv'
    BY <2>0, <2>2, <2>5 DEF GuardInv, IpInv, Known
  <2>7. \A v \in Vms \ Containers : v # V /\ live[v] # "stopped" => rows[v].ip # rows[V].ip
    <3> SUFFICES ASSUME NEW v \in Vms \ Containers, v # V, live[v] # "stopped", rows[v].ip = rows[V].ip PROVE FALSE
      OBVIOUS
    <3>1. v \in Known
      BY DEF HostInv, HeldInv, HeldRule
    <3> QED BY <2>0, <3>1 DEF GuardInv, IpInv, HostInv, AddressInv, AddressesUnique
  <2>8. GuestInv'
    <3> SUFFICES ASSUME NEW v \in Vms \ Containers, live[v] # "stopped" PROVE GuestRule(v)'
      BY <2>1 DEF GuestInv, GuestRule
    <3> QED BY <2>0, <2>1, <2>2, <2>3, <2>7 DEF GuardInv, GuestInv, GuestRule
  <2> QED BY <2>4, <2>6, <2>8 DEF GuardInv, StageInv, Cleanings, Wired
<1>8. CASE Settle \/ StepFails
  <2>0. op # Idle /\ V \in Vms /\ V \in Known
    <3>1. op.at # None
      BY <1>8 DEF Settle, StepFails, Fails, At, None
    <3> QED BY <3>1, AtWork, OpRow
  <2>1. op' = Idle /\ UNCHANGED World
    BY <1>8 DEF Settle, StepFails, Fails, Abort, Finish
  <2>2. SameRows
    BY <1>8, <2>0, SettleSame, AbortRows DEF StepFails, Fails
  <2>3. Known' = Known
    BY <2>2, RowsSame
  <2> QED BY <2>0, <2>1, <2>2, <2>3, GuardEnds DEF World, SameRows
<1>9. ASSUME NEW v \in Vms, QueryFails(v) \/ Damage(v) PROVE GuardInv'
  <2>1. op = Idle /\ op' = Idle /\ UNCHANGED World /\ v \in Known
    BY <1>9 DEF QueryFails, Damage, Scans, Ready
  <2>a. rows[v].readable \in BOOLEAN /\ rows[v].error \in Errors /\ "cannot query engine" \in Errors
        /\ [rows[v] EXCEPT !.error = "cannot query engine"]
             = [rows[v] EXCEPT !.error = "cannot query engine", !.readable = rows[v].readable]
        /\ [rows[v] EXCEPT !.readable = FALSE] = [rows[v] EXCEPT !.error = rows[v].error, !.readable = FALSE]
    BY DEF HostInv, HostType, Row, Errors, RecoveryOwned
  <2>2. SameRows
    <3>1. CASE QueryFails(v)
      BY <2>1, <2>a, <3>1, EventSame DEF QueryFails
    <3>2. CASE Damage(v)
      BY <2>1, <2>a, <3>2, EventSame DEF Damage
    <3> QED BY <1>9, <3>1, <3>2
  <2>3. Known' = Known
    BY <2>2, RowsSame
  <2> QED BY <2>1, <2>2, <2>3, GuardEnds DEF World, SameRows
<1>10. ASSUME NEW v \in Vms, GuestEnds(v) \/ Pauses(v) PROVE GuardInv'
  <2>1. UNCHANGED <<rows, op, held, denied>> /\ Known' = Known
    BY <1>10 DEF GuestEnds, Pauses, Database, Rules, Known
  <2>2. \A w \in Vms : live'[w] # "stopped" => live[w] # "stopped" /\ (w \in exposed => w \in exposed')
    BY <1>10 DEF GuestEnds, Pauses, HostInv, HostType
  <2>3. IpInv' /\ GuestInv'
    BY <2>1, <2>2, GuardStays
  <2> QED BY <2>1, <2>3 DEF GuardInv, StageInv
<1>11. CASE Crash
  <2>1. op' = Idle /\ UNCHANGED <<rows, World>> /\ Known' = Known
    BY <1>11 DEF Crash, Database, Known
  <2> QED BY <2>1, GuardEnds DEF World
<1>12. CASE Reload \/ Reboot
  <2>1. op' = Idle /\ UNCHANGED rows /\ Known' = Known
    BY <1>12 DEF Reload, Reboot, Database, Known, HostInv, OpInv, Up
  <2>2. \A v \in Vms \ Containers : live'[v] # "stopped" => v \in exposed' /\ live[v] # "stopped"
    BY <1>12 DEF Reload, Reboot
  <2>3. \A v \in Vms : live'[v] # "stopped" => held[v] \ {"isolation", "ingress"} \subseteq held'[v]
    BY <1>12 DEF Reload, Reboot, Flushed, InFirewall
  <2>4. GuestInv'
    BY <2>2, <2>3 DEF GuardInv, GuestInv, GuestRule
  <2> QED BY <2>1, <2>4 DEF GuardInv, IpInv, StageInv
<1>13. CASE UNCHANGED vars
  BY <1>13 DEF vars, GuardInv, IpInv, GuestInv, GuestRule, StageInv, Known
<1> QED
  BY <1>1, <1>2, <1>3, <1>4, <1>5, <1>6, <1>7, <1>8, <1>9, <1>10, <1>11, <1>12, <1>13
  DEF Next, Works, Calls, Events

\* A guest runs on its own disk and tap, a guarded one isolated and denied.
THEOREM GuestsAreGuarded == Spec => []GuestsGuarded
<1>1. Init => HostInv /\ GuardInv
  BY HostInitInv, GuardInit
<1>2. (HostInv /\ GuardInv) /\ [Next]_vars => (HostInv /\ GuardInv)'
  BY HostNextInv, GuardNext
<1>3. HostInv /\ GuardInv => GuestsGuarded
  BY AgentHostAssumption DEF GuardInv, GuestInv, GuestRule, GuestsGuarded
<1> QED BY <1>1, <1>2, <1>3, PTL DEF Spec

-----------------------------------------------------------------------------
(* Lost rules *)

\* A row that says its guest is served.
Claims(v) == Live(rows[v].state) /\ rows[v].error = None /\ rows[v].readable
LossRule(v) ==
  live[v] # "stopped" /\ (op = Idle \/ op.vm # v) /\ Claims(v) => Served(v)

\* How far the operation under way has restored the rules of its VM.
Restores == Buildings \ {"seed", "launch"}
RestoreInv ==
  op # Idle =>
    /\ op.at \in Restores => op.vm \notin Containers
    /\ op.vm \notin Containers =>
         /\ op.at \in {"deny", "ingress", "launch", "settle"} => op.row.ports \X {op.row.ip} \subseteq forwards
         /\ op.at \in {"ingress", "launch", "settle"} /\ op.vm \notin Guarded => op.row.ip \notin denied
         /\ op.at \in {"launch", "settle"} /\ op.vm \in Guarded => "ingress" \in held[op.vm]

\* Before the rows are opened again they may claim what a reload took.
ClaimInv == agent.phase # "down" => \A v \in Vms \ Containers : LossRule(v)
WorldInv == exposed \subseteq Vms /\ \A f \in forwards : f[2] # NoIp
LossInv == ClaimInv /\ RestoreInv /\ WorldInv

LEMMA LossInit == Init => LossInv
<1> SUFFICES ASSUME Init PROVE LossInv
  OBVIOUS
<1> QED BY DEF Init, Down, LossInv, ClaimInv, RestoreInv, WorldInv

\* Other VMs keep their rules.
OthersKept ==
  /\ \A v \in Vms : v # op.vm =>
       rows'[v] = rows[v] /\ held'[v] = held[v] /\ (live'[v] # "stopped" => live[v] # "stopped")
  /\ \A f : f[2] # op.row.ip => (f \in forwards <=> f \in forwards')
  /\ \A i : i # op.row.ip => (i \in denied <=> i \in denied')

LEMMA OthersServed ==
  ASSUME HostInv, GuardInv, op # Idle, OthersKept, NEW v \in Vms \ Containers, v # op.vm,
         LossRule(v), live'[v] # "stopped", Claims(v)'
  PROVE  Served(v)'
<1>1. rows'[v] = rows[v] /\ held'[v] = held[v] /\ live[v] # "stopped"
  BY DEF OthersKept
<1>2. Served(v)
  BY <1>1 DEF LossRule, Claims
<1>3. v \in Known /\ op.vm \in Known /\ rows[v].ip # NoIp /\ op.row.ip = rows[op.vm].ip
  BY <1>1, OpRow DEF HostInv, HeldInv, HeldRule, GuardInv, IpInv, V
<1>4. rows[v].ip # op.row.ip
  BY <1>3 DEF HostInv, AddressInv, AddressesUnique
<1>5. rows[v].ports \X {rows[v].ip} \subseteq forwards'
  <2> SUFFICES ASSUME NEW p \in rows[v].ports PROVE <<p, rows[v].ip>> \in forwards'
    OBVIOUS
  <2>1. <<p, rows[v].ip>> \in forwards /\ <<p, rows[v].ip>>[2] = rows[v].ip
    BY <1>2 DEF Served
  <2> QED BY <1>4, <2>1 DEF OthersKept
<1>6. rows[v].ip \in denied <=> rows[v].ip \in denied'
  BY <1>4 DEF OthersKept
<1> QED BY <1>1, <1>2, <1>5, <1>6 DEF Served

\* A step within an operation.
LEMMA ClaimsWork ==
  ASSUME HostInv, GuardInv, ClaimInv, op # Idle, OthersKept, op' # Idle, op'.vm = op.vm
  PROVE  ClaimInv'
<1>1. agent.phase # "down"
  BY OpRow DEF Up
<1> QED BY <1>1, OthersServed DEF ClaimInv, LossRule

\* The last step of one: its VM claims nothing, or is served.
LEMMA ClaimsEnd ==
  ASSUME HostInv, GuardInv, ClaimInv, op # Idle, OthersKept, NEW vm, vm = op.vm,
         vm \in Containers \/ live'[vm] = "stopped" \/ ~Claims(vm)' \/ Served(vm)'
  PROVE  ClaimInv'
<1>1. agent.phase # "down"
  BY OpRow DEF Up
<1> QED BY <1>1, OthersServed DEF ClaimInv, LossRule

\* A step between operations: rows may lose their claim, guests end.
LEMMA ClaimsStay ==
  ASSUME ClaimInv, op = Idle, agent.phase # "down", UNCHANGED <<held, forwards, denied>>,
         \A v \in Vms : live'[v] # "stopped" => live[v] # "stopped",
         \A v \in Vms \ Containers : (op' = Idle \/ op'.vm # v) /\ live'[v] # "stopped" /\ Claims(v)' =>
            Claims(v) /\ rows'[v].ip = rows[v].ip /\ rows'[v].ports = rows[v].ports
  PROVE  ClaimInv'
BY DEF ClaimInv, LossRule, Served

\* What a finished restoration has served.
LEMMA RestoredServed ==
  ASSUME HostInv, GuardInv, RestoreInv, op # Idle, op.at \in {"launch", "settle"}, op.vm \notin Containers
  PROVE  Served(op.vm)
<1>1. op.row.ip = rows[op.vm].ip /\ op.row.ports = rows[op.vm].ports
  BY OpRow DEF V
<1>2. op.vm \in Guarded => "isolation" \in held[op.vm] /\ op.row.ip \in denied
  BY DEF GuardInv, StageInv, Wired
<1> QED BY <1>1, <1>2 DEF RestoreInv, Served

\* A creation, start or recovery goes on.
LEMMA LossBuilds ==
  ASSUME HostInv, GuardInv, LossInv, op # Idle, op.at \in Buildings, NEW next \in Buildings, Go(next),
         UNCHANGED <<rows, live, exposed>>,
         \A v \in Vms : held[v] \subseteq held'[v] /\ (v # op.vm => held'[v] = held[v]),
         \A f : f[2] # op.row.ip => (f \in forwards <=> f \in forwards'),
         \A i : i # op.row.ip => (i \in denied <=> i \in denied'),
         next \in Restores => op.at \in Restores \/ op.vm \notin Containers,
         op.vm \notin Containers =>
           /\ next \in {"deny", "ingress", "launch", "settle"} => op.row.ports \X {op.row.ip} \subseteq forwards'
           /\ next \in {"ingress", "launch", "settle"} /\ op.vm \notin Guarded => op.row.ip \notin denied'
           /\ next \in {"launch", "settle"} /\ op.vm \in Guarded => "ingress" \in held'[op.vm],
         \A f \in forwards' : f[2] # NoIp
  PROVE  LossInv'
<1>1. op \in Op
  BY OpRow
<1>2. op'.at = next /\ op'.vm = op.vm /\ op'.row = op.row
  BY <1>1 DEF Go, Op
<1>3. next # None
  BY DEF Buildings, None
<1>4. op' # Idle
  BY <1>2, <1>3 DEF Idle
<1>5. OthersKept
  BY DEF OthersKept
<1>6. ClaimInv'
  BY <1>2, <1>4, <1>5, ClaimsWork DEF LossInv
<1>7. RestoreInv'
  BY <1>2 DEF LossInv, RestoreInv
<1>8. WorldInv'
  BY DEF LossInv, WorldInv
<1> QED BY <1>6, <1>7, <1>8 DEF LossInv

\* An operation ends with the host as it is, or its guest stopped.
LEMMA LossEnds ==
  ASSUME HostInv, GuardInv, LossInv, op # Idle, op' = Idle, OthersKept, exposed' \subseteq exposed,
         \A f \in forwards' : f[2] # NoIp, NEW vm, vm = op.vm,
         vm \in Containers \/ live'[vm] = "stopped" \/ ~Claims(vm)' \/ Served(vm)'
  PROVE  LossInv'
BY ClaimsEnd DEF LossInv, RestoreInv, WorldInv

\* A failed step leaves an error.
LEMMA AbortClaims ==
  ASSUME HostInv, op # Idle, Abort, NEW vm, vm = op.vm
  PROVE  /\ ~Claims(vm)'
         /\ \A v \in Vms : v # vm => rows'[v] = rows[v]
<1>1. V = vm /\ V \in Vms /\ op.row \in Row
  BY OpRow DEF V
<1>2. FailedRow.error \in {"operation failed", "network recovery failed"}
  BY <1>1 DEF FailedRow, Row
<1>3. rows'[vm] = FailedRow /\ \A v \in Vms : v # vm => rows'[v] = rows[v]
  BY <1>1 DEF Abort, Save, HostInv, HostType
<1> QED BY <1>2, <1>3 DEF Claims, None

LEMMA AbortLoss ==
  ASSUME HostInv, GuardInv, LossInv, op # Idle, Abort, UNCHANGED exposed,
         \A v \in Vms : v # op.vm => held'[v] = held[v] /\ live'[v] = live[v],
         \A f : f[2] # op.row.ip => (f \in forwards <=> f \in forwards'), UNCHANGED denied,
         \A f \in forwards' : f[2] # NoIp
  PROVE  LossInv'
<1> PICK vm : vm = op.vm
  OBVIOUS
<1>1. ~Claims(vm)' /\ \A v \in Vms : v # vm => rows'[v] = rows[v]
  BY AbortClaims
<1>2. OthersKept
  BY <1>1 DEF OthersKept
<1>3. op' = Idle
  BY DEF Abort, Finish
<1> QED BY <1>1, <1>2, <1>3, LossEnds

\* The operation has the address of its VM, which is one unless it is a container.
LEMMA OpWorld ==
  ASSUME HostInv, GuardInv, op # Idle
  PROVE  op.row.ip = rows[op.vm].ip /\ (op.vm \notin Containers => op.row.ip # NoIp)
BY OpRow DEF V, GuardInv, IpInv

LEMMA LossStarts == HostInv /\ LossInv /\ Starting => LossInv'
<1> SUFFICES ASSUME HostInv, LossInv, Starting PROVE LossInv'
  OBVIOUS
<1>1. op' = Idle /\ op = Idle /\ UNCHANGED World
  BY DEF Starting, Open, BindRuntime, BindNetwork, HostInv, OpInv, Up
<1>2. RestoreInv' /\ WorldInv'
  BY <1>1 DEF LossInv, RestoreInv, WorldInv, World
<1>3. CASE Open
  <2>1. \A v \in Vms \ Containers : ~Claims(v)'
    <3> SUFFICES ASSUME NEW v \in Vms \ Containers PROVE ~Claims(v)'
      OBVIOUS
    <3>1. CASE Claims(v)
      <4>1. rows'[v] = [rows[v] EXCEPT !.error = "network recovery pending"]
        BY <1>3, <3>1 DEF Open, Claims
      <4>2. rows'[v].error = "network recovery pending"
        BY <4>1 DEF HostInv, HostType, Row
      <4> QED BY <4>2 DEF Claims, None
    <3>2. CASE ~Claims(v)
      <4>1. rows'[v] = rows[v]
        BY <1>3, <3>2 DEF Open, Claims
      <4> QED BY <3>2, <4>1 DEF Claims
    <3> QED BY <3>1, <3>2
  <2>2. ClaimInv'
    BY <2>1 DEF ClaimInv, LossRule
  <2> QED BY <1>2, <2>2 DEF LossInv
<1>4. CASE BindRuntime \/ BindNetwork
  <2>1. UNCHANGED rows /\ agent.phase # "down"
    BY <1>4 DEF BindRuntime, BindNetwork
  <2>2. ClaimInv'
    BY <1>1, <2>1, ClaimsStay DEF LossInv, World, Claims
  <2> QED BY <1>2, <2>2 DEF LossInv
<1> QED BY <1>3, <1>4 DEF Starting

\* A request or a scan: its VM is the operation's, or its row is what was observed.
LEMMA LossCalls ==
  ASSUME HostInv, LossInv, NEW v \in Vms, Create(v) \/ Start(v) \/ Stop(v) \/ Destroy(v) \/ Reconcile(v)
  PROVE  LossInv'
<1>1. op = Idle /\ UNCHANGED World /\ agent' = agent /\ Up
  BY DEF Create, Start, Stop, Destroy, Reconcile, Scans, Ready
<1>2. WorldInv'
  BY <1>1 DEF LossInv, WorldInv, World
<1>3. ASSUME NEW call, NEW step \in {"seed", "network", "end", "launch"}, NEW row, NEW was,
             Begin(call, v, step, row, was), UNCHANGED rows \/ (\E new : Save(v, new)),
             step = "network" \/ (step = "launch" /\ v \in Containers) \/ step \in {"seed", "end"},
             step = "network" => v \notin Containers
      PROVE  LossInv'
  <2>1. op'.vm = v /\ op'.at = step
    BY <1>3 DEF Begin
  <2>2. op' # Idle
    BY <2>1 DEF Idle, None
  <2>3. \A w \in Vms : w # v => rows'[w] = rows[w]
    BY <1>3 DEF Save, HostInv, HostType
  <2>4. ClaimInv'
    BY <1>1, <2>1, <2>2, <2>3, ClaimsStay DEF LossInv, World, Claims, Up
  <2>5. RestoreInv'
    BY <1>3, <2>1 DEF RestoreInv, Restores, Buildings
  <2> QED BY <1>2, <2>4, <2>5 DEF LossInv
<1>4. CASE Create(v)
  BY <1>3, <1>4 DEF Create
<1>5. CASE Start(v)
  BY <1>3, <1>5 DEF Start
<1>6. CASE Stop(v)
  BY <1>3, <1>6 DEF Stop, Database
<1>7. ASSUME Destroys(v) PROVE LossInv'
  BY <1>3, <1>7 DEF Destroys
<1>8. CASE Reconcile(v) /\ ~Destroys(v)
  <2>1. CASE v \notin Containers /\ Begin("reconcile", v, "network", Observed(v), rows[v].state) /\ UNCHANGED rows
    BY <1>3, <2>1
  <2>2. CASE UNCHANGED op /\ v \in Containers /\ Save(v, Recovered(Observed(v), rows[v].state))
    <3>1. \A w \in Vms \ Containers : rows'[w] = rows[w]
      BY <2>2 DEF Save, HostInv, HostType
    <3>2. ClaimInv'
      BY <1>1, <2>2, <3>1, ClaimsStay DEF LossInv, World, Claims, Up
    <3> QED BY <1>1, <1>2, <2>2, <3>2 DEF LossInv, RestoreInv
  <2>3. CASE UNCHANGED op /\ ~NeedsRecovery(v) /\ Save(v, Observed(v))
    <3>1. \A w \in Vms : w # v => rows'[w] = rows[w]
      BY <2>3 DEF Save, HostInv, HostType
    <3>2. v \notin Containers /\ live[v] # "stopped" =>
            Claims(v) /\ rows'[v].ip = rows[v].ip /\ rows'[v].ports = rows[v].ports
      <4> SUFFICES ASSUME v \notin Containers, live[v] # "stopped"
                   PROVE  Claims(v) /\ rows'[v].ip = rows[v].ip /\ rows'[v].ports = rows[v].ports
        OBVIOUS
      <4>1. Live(Actual(v)) /\ rows[v].readable
        BY <1>8 DEF Actual, Reachable, Live, HostInv, HostType, Guest, Reconcile, Scans
      <4>2. Claims(v)
        BY <2>3, <4>1 DEF NeedsRecovery, Claims
      <4>3. SameRows
        BY <1>8, ScanSame
      <4> QED BY <4>2, <4>3 DEF SameRows
    <3>3. ClaimInv'
      BY <1>1, <2>3, <3>1, <3>2, ClaimsStay DEF LossInv, World, Claims, Up
    <3> QED BY <1>1, <1>2, <2>3, <3>3 DEF LossInv, RestoreInv
  <2> QED BY <1>8, <2>1, <2>2, <2>3 DEF Reconcile
<1> QED BY <1>4, <1>5, <1>6, <1>7, <1>8 DEF Destroy

LEMMA LossRestores == HostInv /\ GuardInv /\ LossInv /\ Restoring => LossInv'
<1> SUFFICES ASSUME HostInv, GuardInv, LossInv, Restoring PROVE LossInv'
  OBVIOUS
<1>0. op # Idle /\ op.at \in Restores /\ op.vm \in Vms /\ V = op.vm
  <2>1. op.at \in Restores /\ op.at # None
    BY DEF Restoring, Isolate, Tap, Unforward, Forward, ForwardFails, Fails, Deny, Ingress, Proceeds, At,
       None, Buildings, Restores
  <2> QED BY <2>1, AtWork, OpRow DEF V
<1>1. op.vm \notin Containers /\ op.row.ip # NoIp /\ op.at \in Buildings
  BY <1>0, OpWorld DEF LossInv, RestoreInv, Restores
<1>2. \A f \in forwards : f[2] # NoIp
  BY DEF LossInv, WorldInv
<1> USE DEF Proceeds, Database, Rules, At, Gain, Buildings
<1>3. CASE Isolate
  <2>1. \A v \in Vms : held[v] \subseteq held'[v] /\ (v # op.vm => held'[v] = held[v])
    BY <1>0, <1>3 DEF Isolate, HostInv, HostType
  <2> QED BY <1>0, <1>1, <1>2, <1>3, <2>1, LossBuilds DEF Isolate
<1>4. CASE Tap
  <2>1. \A v \in Vms : held[v] \subseteq held'[v] /\ (v # op.vm => held'[v] = held[v])
    BY <1>0, <1>4 DEF Tap, HostInv, HostType
  <2> QED BY <1>0, <1>1, <1>2, <1>4, <2>1, LossBuilds DEF Tap
<1>5. CASE Unforward
  BY <1>0, <1>1, <1>2, <1>5, LossBuilds DEF Unforward, Mine
<1>6. CASE Forward
  <2>1. \A f : f[2] # op.row.ip => (f \in forwards <=> f \in forwards')
    BY <1>6 DEF Forward
  <2>2. \A f \in forwards' : f[2] # NoIp
    BY <1>1, <1>2, <1>6 DEF Forward
  <2>3. op.row.ports \X {op.row.ip} \subseteq forwards'
    BY <1>6 DEF Forward
  <2> QED BY <1>0, <1>1, <1>6, <2>1, <2>2, <2>3, LossBuilds DEF Forward
<1>7. CASE ForwardFails
  <2>1. PICK ports \in SUBSET op.row.ports : forwards' = forwards \union (ports \X {op.row.ip})
    BY <1>7 DEF ForwardFails
  <2>2. \A f : f[2] # op.row.ip => (f \in forwards <=> f \in forwards')
    BY <2>1
  <2>3. \A f \in forwards' : f[2] # NoIp
    BY <1>1, <1>2, <2>1
  <2>4. Abort /\ UNCHANGED <<held, live, denied, exposed>>
    BY <1>7 DEF ForwardFails, Fails
  <2> QED BY <1>0, <2>2, <2>3, <2>4, AbortLoss
<1>8. CASE Deny
  <2>1. \A i : i # op.row.ip => (i \in denied <=> i \in denied')
    BY <1>8 DEF Deny, DeniedAfter
  <2>2. op.vm \notin Guarded => op.row.ip \notin denied'
    BY <1>0, <1>8 DEF Deny, DeniedAfter
  <2>3. op.row.ports \X {op.row.ip} \subseteq forwards'
    BY <1>0, <1>1, <1>8 DEF Deny, LossInv, RestoreInv
  <2> QED BY <1>0, <1>1, <1>2, <1>8, <2>1, <2>2, <2>3, LossBuilds DEF Deny
<1>9. CASE Ingress
  <2>1. \A v \in Vms : held[v] \subseteq held'[v] /\ (v # op.vm => held'[v] = held[v])
    BY <1>0, <1>9 DEF Ingress, HostInv, HostType
  <2>2. op.vm \in Guarded => "ingress" \in held'[op.vm]
    BY <1>0, <1>9 DEF Ingress, HostInv, HostType
  <2>3. op.row.ports \X {op.row.ip} \subseteq forwards' /\ (op.vm \notin Guarded => op.row.ip \notin denied')
    BY <1>0, <1>1, <1>9 DEF Ingress, LossInv, RestoreInv
  <2> QED BY <1>0, <1>1, <1>2, <1>9, <2>1, <2>2, <2>3, LossBuilds DEF Ingress
<1> QED BY <1>3, <1>4, <1>5, <1>6, <1>7, <1>8, <1>9 DEF Restoring

LEMMA LossCreates == HostInv /\ GuardInv /\ LossInv /\ Creating => LossInv'
<1> SUFFICES ASSUME HostInv, GuardInv, LossInv, Creating PROVE LossInv'
  OBVIOUS
<1>0. op # Idle /\ op.at \in Buildings /\ op.vm \in Vms /\ V = op.vm
  <2>1. op.at \in Buildings /\ op.at # None
    BY DEF Creating, Seed, EnsureNetwork, Clone, Fill, CopyFails, NothingToLaunch, Launch, LaunchFails, Fails,
       Proceeds, At, None, Buildings
  <2> QED BY <2>1, AtWork, OpRow DEF V
<1>2. \A f \in forwards : f[2] # NoIp
  BY DEF LossInv, WorldInv
<1> USE DEF Proceeds, Database, Rules, At, Gain, Buildings, Restores
<1>3. CASE Seed
  <2>1. \A v \in Vms : held[v] \subseteq held'[v] /\ (v # op.vm => held'[v] = held[v])
    BY <1>0, <1>3 DEF Seed, HostInv, HostType
  <2>2. Go(IF op.vm \in Containers THEN "launch" ELSE "network")
    BY <1>0, <1>3 DEF Seed
  <2>3. CASE op.vm \in Containers
    BY <1>0, <1>2, <1>3, <2>1, <2>2, <2>3, LossBuilds DEF Seed
  <2>4. CASE op.vm \notin Containers
    BY <1>0, <1>2, <1>3, <2>1, <2>2, <2>4, LossBuilds DEF Seed
  <2> QED BY <2>3, <2>4
<1>4. CASE EnsureNetwork
  <2>1. AfterNetwork \in {"clone", "isolate"} /\ op.vm \notin Containers
    BY <1>0, <1>4 DEF EnsureNetwork, AfterNetwork, LossInv, RestoreInv
  <2> QED BY <1>0, <1>2, <1>4, <2>1, LossBuilds DEF EnsureNetwork
<1>5. CASE Clone \/ Fill
  <2>1. \A v \in Vms : held[v] \subseteq held'[v] /\ (v # op.vm => held'[v] = held[v])
    BY <1>0, <1>5 DEF Clone, Fill, HostInv, HostType
  <2>2. op.vm \notin Containers
    BY <1>0, <1>5 DEF Clone, Fill, LossInv, RestoreInv
  <2> QED BY <1>0, <1>2, <1>5, <2>1, <2>2, LossBuilds DEF Clone, Fill
<1>6. CASE CopyFails \/ NothingToLaunch
  BY <1>0, <1>2, <1>6, AbortLoss DEF CopyFails, NothingToLaunch, Fails, World
<1>7. CASE Launch
  <2>0. \A v \in Vms : v # op.vm => rows'[v] = rows[v] /\ held'[v] = held[v] /\ live'[v] = live[v]
    BY <1>0, <1>7 DEF Launch, Save, HostInv, HostType
  <2>1. op' = Idle /\ UNCHANGED <<forwards, denied, exposed>>
    BY <1>7 DEF Launch, Finish
  <2>2. OthersKept
    BY <2>0, <2>1 DEF OthersKept
  <2>3. op.vm \in Containers \/ Served(op.vm)
    BY <1>0, <1>7, RestoredServed DEF Launch, LossInv
  <2>4. PICK vm : vm = op.vm
    OBVIOUS
  <2>5. vm \in Containers \/ Served(vm)'
    <3> SUFFICES ASSUME vm \notin Containers PROVE Served(vm)'
      OBVIOUS
    <3>1. Served(vm)
      BY <2>3, <2>4
    <3>2. held[vm] \subseteq held'[vm]
      BY <1>0, <1>7, <2>4 DEF Launch, HostInv, HostType
    <3>3. rows'[vm].ip = rows[vm].ip /\ rows'[vm].ports = rows[vm].ports
      <4>1. SameRows
        BY <1>0, <1>7, SaveOp DEF Launch, States, Errors
      <4> QED BY <1>0, <2>4, <4>1 DEF SameRows
    <3> QED BY <2>1, <3>1, <3>2, <3>3 DEF Served
  <2> QED BY <1>0, <1>2, <2>1, <2>2, <2>4, <2>5, LossEnds
<1>8. CASE LaunchFails
  <2>1. Abort /\ UNCHANGED <<forwards, denied, exposed>>
    BY <1>8 DEF LaunchFails, Fails, World
  <2>2. \A v \in Vms : v # op.vm => held'[v] = held[v] /\ live'[v] = live[v]
    BY <1>0, <1>8 DEF LaunchFails, World, HostInv, HostType
  <2> QED BY <1>0, <1>2, <2>1, <2>2, AbortLoss
<1> QED BY <1>3, <1>4, <1>5, <1>6, <1>7, <1>8 DEF Creating

\* Stops and deletions leave a VM without a guest, or with an error.
LEMMA LossStops == HostInv /\ GuardInv /\ LossInv /\ (Ending \/ Cleaning) => LossInv'
<1> SUFFICES ASSUME HostInv, GuardInv, LossInv, Ending \/ Cleaning PROVE LossInv'
  OBVIOUS
<1>0. op # Idle /\ op.at \in Endings /\ V \in Vms /\ V = op.vm /\ op \in Op /\ op.row \in Row
  <2>1. op.at \in Endings /\ op.at # None
    BY DEF Ending, End, EndFails, Stopped, Cleaning, Unload, Unpublish, Release, Allow, Untap, Unisolate, RemoveDisk,
       Cleans, CleanupFails, Conclude, Proceeds, At, Cleanings, Endings, After, None
  <2> QED BY <2>1, AtWork, OpRow DEF V
<1>1. \A f \in forwards' : f[2] # NoIp
  BY DEF LossInv, WorldInv, Ending, End, EndFails, Stopped, Cleaning, Unload, Unpublish, Release, Allow, Untap,
     Unisolate, RemoveDisk, Cleans, CleanupFails, Conclude, World, Rules
<1>2. \A v \in Vms : v # op.vm => rows'[v] = rows[v] /\ held'[v] = held[v]
  BY <1>0 DEF Ending, End, EndFails, Stopped, Cleaning, Unload, Unpublish, Release, Allow, Untap, Unisolate,
     RemoveDisk, Cleans, CleanupFails, Conclude, World, Lose, Proceeds, Database, Save, HostInv, HostType
<1>3. \A v \in Vms : live'[v] # "stopped" => live[v] # "stopped"
  BY <1>0 DEF Ending, End, EndFails, Stopped, Cleaning, Unload, Unpublish, Release, Allow, Untap, Unisolate,
     RemoveDisk, Cleans, CleanupFails, Conclude, World, HostInv, HostType
<1>4. \A f : f[2] # op.row.ip => (f \in forwards <=> f \in forwards')
  BY DEF Ending, End, EndFails, Stopped, Cleaning, Unload, Unpublish, Release, Allow, Untap, Unisolate, RemoveDisk,
     Cleans, CleanupFails, Conclude, World, Rules, Mine
<1>5. \A i : i # op.row.ip => (i \in denied <=> i \in denied')
  BY DEF Ending, End, EndFails, Stopped, Cleaning, Unload, Unpublish, Release, Allow, Untap, Unisolate, RemoveDisk,
     Cleans, CleanupFails, Conclude, World, Rules
<1>6. OthersKept
  BY <1>2, <1>3, <1>4, <1>5 DEF OthersKept
<1>7. exposed' \subseteq exposed
  <2>1. CASE EndFails
    BY <2>1 DEF EndFails
  <2> QED BY <2>1 DEF Ending, End, Stopped, Cleaning, Unload, Unpublish, Release, Allow, Untap, Unisolate,
          RemoveDisk, Cleans, CleanupFails, Conclude, World
<1>8. PICK vm : vm = op.vm
  OBVIOUS
<1>9. CASE EndFails
  <2>1. op' = Idle /\ rows'[vm].error \in {"stop unfinished", "operation failed"}
    BY <1>0, <1>8, <1>9 DEF EndFails, Finish, Save, HostInv, HostType, Row
  <2> QED BY <1>0, <1>1, <1>6, <1>7, <1>8, <2>1, LossEnds DEF Claims, None
<1>10. CASE Stopped
  <2>1. op' = Idle /\ rows'[vm].state = "stopped"
    BY <1>0, <1>8, <1>10 DEF Stopped, Finish, Save, HostInv, HostType, Row
  <2> QED BY <1>0, <1>1, <1>6, <1>7, <1>8, <2>1, LossEnds DEF Claims, Live
<1>11. CASE Conclude
  <2>1. op' = Idle /\ live' = live
    BY <1>11 DEF Conclude, Finish
  <2>2. live[vm] = "stopped"
    BY <1>0, <1>8, <1>11 DEF HostInv, CleanInv, Conclude, At, Cleanings
  <2> QED BY <1>0, <1>1, <1>6, <1>7, <1>8, <2>1, <2>2, LossEnds
<1>12. CASE ~(EndFails \/ Stopped \/ Conclude)
  <2>1. op'.vm = op.vm /\ op'.at \in {"stopped"} \union Cleanings
    <3>1. CASE End
      BY <1>0, <3>1 DEF End, Proceeds, Go, Op, Cleanings
    <3>2. ASSUME NEW step \in DOMAIN After, Proceeds(step, After[step])
          PROVE  op'.vm = op.vm /\ op'.at \in Cleanings
      <4>1. After[step] \in Cleanings
        BY DEF After, Cleanings
      <4> QED BY <1>0, <3>2, <4>1 DEF Proceeds, Go, Op
    <3>3. CASE CleanupFails
      <4>1. After[op.at] \in Cleanings
        BY <3>3 DEF CleanupFails, After, Cleanings
      <4> QED BY <1>0, <3>3, <4>1 DEF CleanupFails, Op
    <3>4. {"unload", "unpublish", "release", "allow", "untap", "unisolate", "remove"} = DOMAIN After
      BY DEF After
    <3>5. CASE Unload \/ Unpublish \/ Untap \/ Unisolate \/ RemoveDisk
      BY <3>2, <3>4, <3>5 DEF Unload, Unpublish, Untap, Unisolate, RemoveDisk, Cleans
    <3>6. CASE Release \/ Allow
      BY <3>2, <3>4, <3>6 DEF Release, Allow
    <3> QED BY <1>12, <3>1, <3>3, <3>5, <3>6 DEF Ending, Cleaning
  <2>2. op' # Idle
    BY <2>1 DEF Idle, None, Cleanings
  <2>3. ClaimInv'
    BY <1>0, <1>6, <2>1, <2>2, ClaimsWork DEF LossInv
  <2>4. RestoreInv'
    BY <2>1 DEF RestoreInv, Restores, Buildings, Cleanings
  <2>5. WorldInv'
    BY <1>1, <1>7 DEF LossInv, WorldInv
  <2> QED BY <2>3, <2>4, <2>5 DEF LossInv
<1> QED BY <1>9, <1>10, <1>11, <1>12

LEMMA LossSettles == HostInv /\ GuardInv /\ LossInv /\ (Settle \/ StepFails) => LossInv'
<1> SUFFICES ASSUME HostInv, GuardInv, LossInv, Settle \/ StepFails PROVE LossInv'
  OBVIOUS
<1>0. op # Idle /\ V \in Vms /\ V = op.vm
  <2>1. op.at # None
    BY DEF Settle, StepFails, Fails, At, None
  <2> QED BY <2>1, AtWork, OpRow DEF V
<1>1. \A f \in forwards : f[2] # NoIp
  BY DEF LossInv, WorldInv
<1>2. CASE StepFails
  BY <1>0, <1>1, <1>2, AbortLoss DEF StepFails, Fails, World
<1>3. CASE Settle
  <2>1. op' = Idle /\ UNCHANGED World /\ op.at = "settle"
    BY <1>3 DEF Settle, Finish, At
  <2>2. op.vm \notin Containers
    BY <1>0, <2>1 DEF LossInv, RestoreInv, Restores, Buildings
  <2>3. PICK vm : vm = op.vm
    OBVIOUS
  <2>4. Served(vm)
    BY <1>0, <2>1, <2>2, <2>3, RestoredServed DEF LossInv
  <2>5. rows'[vm].ip = rows[vm].ip /\ rows'[vm].ports = rows[vm].ports
    BY <1>0, <1>3, <2>3, SettleSame DEF SameRows
  <2>6. Served(vm)'
    BY <2>1, <2>4, <2>5 DEF Served, World
  <2>7. OthersKept
    BY <1>0, <1>3, <2>1 DEF OthersKept, World, Settle, Save, HostInv, HostType
  <2> QED BY <1>0, <1>1, <2>1, <2>3, <2>6, <2>7, LossEnds DEF World
<1> QED BY <1>2, <1>3

LEMMA LossNext == HostInv /\ GuardInv /\ LossInv /\ [Next]_vars => LossInv'
<1> SUFFICES ASSUME HostInv, GuardInv, LossInv, [Next]_vars PROVE LossInv'
  OBVIOUS
<1>1. ASSUME NEW v \in Vms, QueryFails(v) \/ Damage(v) PROVE LossInv'
  <2>1. op = Idle /\ op' = Idle /\ UNCHANGED World /\ agent.phase # "down" /\ rows[v] \in Row
    BY <1>1 DEF QueryFails, Damage, Scans, Ready, Up, HostInv, HostType
  <2>a. rows'[v].error = "cannot query engine" \/ rows'[v].readable = FALSE
    <3>1. CASE QueryFails(v)
      <4>1. rows'[v] = [rows[v] EXCEPT !.error = "cannot query engine"]
        BY <3>1 DEF QueryFails, Save, HostInv, HostType
      <4> QED BY <2>1, <4>1 DEF Row
    <3>2. CASE Damage(v)
      <4>1. rows'[v] = [rows[v] EXCEPT !.readable = FALSE]
        BY <3>2 DEF Damage, Save, HostInv, HostType
      <4> QED BY <2>1, <4>1 DEF Row
    <3> QED BY <1>1, <3>1, <3>2
  <2>b. \A w \in Vms : w # v => rows'[w] = rows[w]
    BY <1>1 DEF QueryFails, Damage, Save, HostInv, HostType
  <2>2. ~Claims(v)' /\ \A w \in Vms : w # v => rows'[w] = rows[w]
    BY <2>a, <2>b DEF Claims, None
  <2>3. ClaimInv'
    BY <2>1, <2>2, ClaimsStay DEF LossInv, World, Claims
  <2> QED BY <2>1, <2>3 DEF LossInv, RestoreInv, WorldInv, World
<1>2. ASSUME NEW v \in Vms, GuestEnds(v) \/ Pauses(v) PROVE LossInv'
  <2>1. UNCHANGED <<rows, op, held, forwards, denied, agent>> /\ exposed' \subseteq exposed
    BY <1>2 DEF GuestEnds, Pauses, Database, Rules
  <2>2. \A w \in Vms : live'[w] # "stopped" => live[w] # "stopped"
    BY <1>2 DEF GuestEnds, Pauses, HostInv, HostType
  <2> QED BY <2>1, <2>2 DEF LossInv, ClaimInv, LossRule, Claims, Served, RestoreInv, WorldInv
<1>3. CASE Crash \/ Reload \/ Reboot
  <2>1. op' = Idle /\ agent'.phase = "down" /\ exposed' \subseteq Vms /\ forwards' \subseteq forwards
    BY <1>3 DEF Crash, Reload, Reboot, Down, World, NoRules, HostInv, OpInv, Up, LossInv, WorldInv
  <2> QED BY <2>1 DEF LossInv, ClaimInv, RestoreInv, WorldInv
<1>4. CASE UNCHANGED vars
  BY <1>4 DEF vars, LossInv, ClaimInv, LossRule, Claims, Served, RestoreInv, WorldInv
<1> QED
  BY <1>1, <1>2, <1>3, <1>4, LossStarts, LossCalls, LossRestores, LossCreates, LossStops, LossSettles
  DEF Next, Works, Calls, Events

\* No lost rule goes unnoticed: the next scan of a guest without its rules restores them.
THEOREM LossIsNoticed == Spec => []LossNoticed
<1>1. Init => HostInv /\ GuardInv /\ LossInv
  BY HostInitInv, GuardInit, LossInit
<1>2. (HostInv /\ GuardInv /\ LossInv) /\ [Next]_vars => (HostInv /\ GuardInv /\ LossInv)'
  BY HostNextInv, GuardNext, LossNext
<1>3. HostInv /\ GuardInv /\ LossInv => LossNoticed
  <2> SUFFICES ASSUME HostInv, LossInv, NEW v \in Vms \ Containers, Up, live[v] # "stopped", rows[v].readable,
                      op.vm # v, ~NeedsRecovery(v)
               PROVE  Served(v)
    BY DEF LossNoticed
  <2>1. Live(Actual(v))
    BY DEF Actual, Reachable, Live, HostInv, HostType, Guest
  <2>2. Claims(v)
    BY <2>1 DEF NeedsRecovery, Claims
  <2> QED BY <2>2 DEF LossInv, ClaimInv, LossRule, Up
<1> QED BY <1>1, <1>2, <1>3, PTL DEF Spec

\* Types. Rows, agent, operation and host stay within what Runtime gives them.
THEOREM TypesAreKept == Spec => []TypeOK
<1>1. Init => HostInv /\ GuardInv /\ LossInv
  BY HostInitInv, GuardInit, LossInit
<1>2. (HostInv /\ GuardInv /\ LossInv) /\ [Next]_vars => (HostInv /\ GuardInv /\ LossInv)'
  BY HostNextInv, GuardNext, LossNext
<1>3. HostInv /\ GuardInv /\ LossInv => TypeOK
  <2> SUFFICES ASSUME HostInv, GuardInv, LossInv PROVE TypeOK
    OBVIOUS
  <2>1. \A v \in Known : rows[v].ports \subseteq AllPorts /\ rows[v].ip \in Ips \union {NoIp}
    BY DEF HostInv, HostType, Known, Row
  <2>2. forwards \subseteq AllPorts \X Ips
    <3> SUFFICES ASSUME NEW f \in forwards PROVE f \in AllPorts \X Ips
      OBVIOUS
    <3>1. PICK v \in Known : f \in rows[v].ports \X {rows[v].ip}
      BY DEF HostInv, RulesInv
    <3>2. rows[v].ip # NoIp
      BY <3>1 DEF LossInv, WorldInv
    <3> QED BY <2>1, <3>1, <3>2
  <2>3. denied \subseteq Ips
    <3> SUFFICES ASSUME NEW i \in denied PROVE i \in Ips
      OBVIOUS
    <3>1. PICK v \in Known \intersect Guarded : i = rows[v].ip
      BY DEF HostInv, RulesInv
    <3>2. i # NoIp
      BY <3>1, AgentHostAssumption DEF GuardInv, IpInv
    <3> QED BY <2>1, <3>1, <3>2
  <2>4. op.vm \in Vms \union {None} /\ op.row \in Row
    <3>1. NoRow \in Row /\ Idle.vm = None /\ Idle.row = NoRow
      BY DEF NoRow, Row, States, Errors, NoIp, Idle
    <3>2. CASE op = Idle
      BY <3>1, <3>2
    <3>3. CASE op # Idle
      BY <3>3, OpRow DEF V
    <3> QED BY <3>2, <3>3
  <2> QED BY <2>2, <2>3, <2>4 DEF TypeOK, HostInv, HostType, Agent, Guest, LossInv, WorldInv
<1> QED BY <1>1, <1>2, <1>3, PTL DEF Spec

-----------------------------------------------------------------------------
(* Capacity *)

Working == {"creating", "running", "paused", "failed"}
Active == {v \in Vms : live[v] # "stopped" \/ rows[v].state \in Working}

\* A guest is never in a row that is shown as stopped, and so counts.
RowInv == \A v \in Vms : live[v] # "stopped" => rows[v].state # "stopped"

\* What runs or may come to run, in rows that are not being deleted, fits.
SumInv == Cardinality(Active) <= Cpus /\ Cardinality(Known) <= Disks

\* The row an operation writes back counts as its VM does.
WorkInv ==
  op # Idle =>
    /\ op.call \in {"stop", "destroy"} => op.row.state = rows[op.vm].state
    /\ op.call \notin {"stop", "destroy"} => {op.row.state, rows[op.vm].state} \subseteq Working
    /\ op.at = "stopped" => live[op.vm] = "stopped"

CapacityInv == RowInv /\ SumInv /\ WorkInv

LEMMA VmsFinite ==
  /\ \A S \in SUBSET Vms : IsFiniteSet(S) /\ Cardinality(S) \in Nat
  /\ \A S \in SUBSET Vms, T \in SUBSET Vms : S \subseteq T => Cardinality(S) <= Cardinality(T)
  /\ \A S \in SUBSET Vms, v \in Vms : Cardinality(S \union {v}) <= Cardinality(S) + 1
<1>1. \A S \in SUBSET Vms : IsFiniteSet(S) /\ Cardinality(S) \in Nat
  BY AgentHostAssumption, FS_Subset, FS_CardinalityType
<1>2. ASSUME NEW S \in SUBSET Vms, NEW T \in SUBSET Vms, S \subseteq T PROVE Cardinality(S) <= Cardinality(T)
  BY <1>1, <1>2, FS_Subset
<1>3. ASSUME NEW S \in SUBSET Vms, NEW v \in Vms PROVE Cardinality(S \union {v}) <= Cardinality(S) + 1
  <2>1. CASE v \in S
    <3>1. S \union {v} = S
      BY <2>1
    <3> QED BY <1>1, <3>1
  <2>2. CASE v \notin S
    <3>1. Cardinality(S \union {v}) = Cardinality(S) + 1
      BY <1>1, <2>2, FS_AddElement
    <3> QED BY <1>1, <3>1
  <2> QED BY <2>1, <2>2
<1> QED BY <1>1, <1>2, <1>3

LEMMA CapacityInit == Init => CapacityInv
<1> SUFFICES ASSUME Init PROVE CapacityInv
  OBVIOUS
<1>1. Active = {} /\ Known = {} /\ op = Idle /\ \A v \in Vms : live[v] = "stopped"
  BY DEF Init, Active, Working, Known, NoRow
<1>2. Cardinality({}) = 0
  BY FS_EmptySet
<1> QED BY <1>1, <1>2, AgentHostAssumption DEF CapacityInv, RowInv, SumInv, WorkInv

\* No guest and no row begins to count that did not.
LEMMA Shrinks ==
  ASSUME HostInv, CapacityInv,
         \A v \in Vms : live'[v] # "stopped" => v \in Active,
         \A v \in Vms : rows'[v].state \in Working => v \in Active,
         \A v \in Vms : rows'[v].state = "stopped" => live'[v] = "stopped",
         \A v \in Vms : rows[v].state = "absent" => rows'[v].state = "absent"
  PROVE  RowInv' /\ SumInv'
<1>1. RowInv'
  BY DEF RowInv
<1>2. Active' \subseteq Active /\ Active' \subseteq Vms /\ Active \subseteq Vms
  BY DEF Active
<1>3. Known' \subseteq Known /\ Known' \subseteq Vms /\ Known \subseteq Vms
  BY DEF Known
<1>4. Cardinality(Active') <= Cardinality(Active) /\ Cardinality(Known') <= Cardinality(Known)
  BY <1>2, <1>3, VmsFinite
<1>5. Cardinality(Active') \in Nat /\ Cardinality(Active) \in Nat
      /\ Cardinality(Known') \in Nat /\ Cardinality(Known) \in Nat /\ Cpus \in Nat /\ Disks \in Nat
  BY <1>2, <1>3, VmsFinite, AgentHostAssumption
<1>6. Cardinality(Active') <= Cpus /\ Cardinality(Known') <= Disks
  BY <1>4, <1>5 DEF CapacityInv, SumInv
<1> QED BY <1>1, <1>6 DEF SumInv

\* Guests end, rows stay.
LEMMA RowsStay ==
  ASSUME HostInv, CapacityInv, \A v \in Vms : rows'[v].state = rows[v].state,
         \A v \in Vms : live'[v] # "stopped" => live[v] # "stopped"
  PROVE  RowInv' /\ SumInv'
BY Shrinks DEF CapacityInv, RowInv, Active

\* A step within an operation.
LEMMA WorkStays ==
  ASSUME HostInv, CapacityInv, op # Idle, UNCHANGED rows, op'.vm = op.vm, op'.row = op.row, op'.call = op.call,
         \A v \in Vms : live'[v] # "stopped" => live[v] # "stopped",
         op'.at = "stopped" => live'[op.vm] = "stopped"
  PROVE  CapacityInv'
BY RowsStay DEF CapacityInv, WorkInv

\* The last one: its VM counted, or ends without a guest.
LEMMA WorkEnds ==
  ASSUME HostInv, CapacityInv, op' = Idle, NEW v \in Known,
         \A w \in Vms : w # v => rows'[w] = rows[w] /\ live'[w] = live[w],
         v \in Active \/ (live'[v] = "stopped" /\ rows'[v].state \notin Working),
         rows'[v].state = "stopped" => live'[v] = "stopped"
  PROVE  CapacityInv'
<1>1. \A w \in Vms : w # v /\ (live[w] # "stopped" \/ rows[w].state \in Working) => w \in Active
  BY DEF Active
<1>2. \A w \in Vms : w # v /\ rows[w].state = "stopped" => live[w] = "stopped"
  BY DEF CapacityInv, RowInv
<1>3. rows[v].state # "absent"
  BY DEF Known
<1>4. RowInv' /\ SumInv'
  BY <1>1, <1>2, <1>3, Shrinks
<1> QED BY <1>4 DEF CapacityInv, WorkInv

\* Admission: what counts is among what the agent takes to be running.
LEMMA Admitted ==
  ASSUME HostInv, CapacityInv, CpuFits, NEW v \in Vms, Active' \subseteq Active \union {v}
  PROVE  Cardinality(Active') <= Cpus
<1>1. Active \subseteq Running /\ Running \subseteq Vms /\ Active' \subseteq Vms
  BY DEF Active, Running, Known, Working, HostInv, HeldInv, HeldRule, CapacityInv, RowInv
<1>2. Active' \subseteq Running \union {v} /\ Running \union {v} \subseteq Vms
  BY <1>1
<1>3. Cardinality(Active') <= Cardinality(Running \union {v})
      /\ Cardinality(Running \union {v}) <= Cardinality(Running) + 1
  BY <1>1, <1>2, VmsFinite
<1>4. Cardinality(Active') \in Nat /\ Cardinality(Running \union {v}) \in Nat /\ Cardinality(Running) \in Nat /\ Cpus \in Nat
  BY <1>1, <1>2, VmsFinite, AgentHostAssumption
<1> QED BY <1>3, <1>4 DEF CpuFits

LEMMA CapacityCreates ==
  ASSUME HostInv, CapacityInv, NEW v \in Vms, Create(v)
  PROVE  CapacityInv'
<1> PICK ports \in Allocations(v) :
       LET row == [state |-> "creating", error |-> None, ports |-> ports, readable |-> TRUE,
                   ip |-> IF v \in Containers THEN NoIp ELSE FirstIp]
       IN Save(v, row) /\ Begin("create", v, "seed", row, None)
  BY DEF Create
<1>1. v \notin Known /\ CpuFits /\ DiskFits /\ live' = live
  BY DEF Create, World
<1>2. /\ rows'[v].state = "creating" /\ \A w \in Vms : w # v => rows'[w] = rows[w]
      /\ op'.vm = v /\ op'.at = "seed" /\ op'.call = "create" /\ op'.row.state = "creating"
  BY DEF Save, Begin, HostInv, HostType
<1>3. Active' \subseteq Active \union {v}
  BY <1>1, <1>2 DEF Active
<1>4. Cardinality(Active') <= Cpus
  BY <1>1, <1>3, Admitted
<1>5. Cardinality(Known') <= Disks
  <2>1. Known' \subseteq Known \union {v} /\ Known' \subseteq Vms /\ Known \subseteq Vms /\ Known \union {v} \subseteq Vms
    BY <1>2 DEF Known
  <2>2. Cardinality(Known') <= Cardinality(Known \union {v})
        /\ Cardinality(Known \union {v}) <= Cardinality(Known) + 1
    BY <2>1, VmsFinite
  <2>3. Cardinality(Known') \in Nat /\ Cardinality(Known \union {v}) \in Nat /\ Cardinality(Known) \in Nat
        /\ Disks \in Nat
    BY <2>1, VmsFinite, AgentHostAssumption
  <2> QED BY <1>1, <2>2, <2>3 DEF DiskFits
<1>6. RowInv'
  BY <1>1, <1>2 DEF CapacityInv, RowInv
<1>7. WorkInv'
  BY <1>2 DEF WorkInv, Working
<1> QED BY <1>4, <1>5, <1>6, <1>7 DEF CapacityInv, SumInv

LEMMA CapacityStarts ==
  ASSUME HostInv, CapacityInv, NEW v \in Vms, Start(v)
  PROVE  CapacityInv'
<1> DEFINE row == [rows[v] EXCEPT !.state = "creating"]
<1>0. rows[v] \in Row /\ row.state = "creating"
  BY DEF HostInv, HostType, Row
<1>1. live' = live /\ Startable(v) /\ Save(v, row)
  BY DEF Start, World
<1>2. /\ rows'[v].state = "creating" /\ \A w \in Vms : w # v => rows'[w] = rows[w]
      /\ op'.vm = v /\ op'.at \in {"launch", "network"} /\ op'.call = "start" /\ op'.row.state = "creating"
  BY <1>0, <1>1 DEF Start, Save, Begin, HostInv, HostType
<1>3. Active' \subseteq Active \union {v}
  BY <1>1, <1>2 DEF Active
<1>4. Known' = Known /\ rows[v].state \in {"paused", "stopped"}
  BY <1>1, <1>2 DEF Known, Startable
<1>5. Cardinality(Active') <= Cpus
  <2>1. CASE CpuFits
    BY <1>3, <2>1, Admitted
  <2>2. CASE rows[v].state = "paused"
    <3>1. Active' \subseteq Active /\ Active \subseteq Vms /\ Active' \subseteq Vms
      BY <1>3, <2>2 DEF Active, Working
    <3>2. Cardinality(Active') <= Cardinality(Active)
      BY <3>1, VmsFinite
    <3>3. Cardinality(Active') \in Nat /\ Cardinality(Active) \in Nat /\ Cpus \in Nat
      BY <3>1, VmsFinite, AgentHostAssumption
    <3> QED BY <3>2, <3>3 DEF CapacityInv, SumInv
  <2> QED BY <1>1, <2>1, <2>2 DEF Startable
<1>6. RowInv'
  BY <1>1, <1>2 DEF CapacityInv, RowInv
<1>7. WorkInv'
  BY <1>2 DEF WorkInv, Working
<1> QED BY <1>4, <1>5, <1>6, <1>7 DEF CapacityInv, SumInv

\* A row on its way to be deleted counts only while its guest runs.
LEMMA CapacityDestroys ==
  ASSUME HostInv, CapacityInv, NEW v \in Known, Destroys(v), UNCHANGED live
  PROVE  CapacityInv'
<1> DEFINE row == [rows[v] EXCEPT !.state = "deleting"]
<1>0. rows[v] \in Row /\ row.state = "deleting" /\ v \in Vms
  BY DEF HostInv, HostType, Row, Known
<1>1. /\ rows'[v].state = "deleting" /\ \A w \in Vms : w # v => rows'[w] = rows[w]
      /\ op'.vm = v /\ op'.at = "end" /\ op'.call = "destroy" /\ op'.row.state = "deleting"
  BY <1>0 DEF Destroys, Save, Begin, HostInv, HostType
<1>2. RowInv' /\ SumInv'
  <2>1. \A w \in Vms : rows'[w].state \in Working => w \in Active
    BY <1>1 DEF Active, Working
  <2>2. \A w \in Vms : rows'[w].state = "stopped" => live[w] = "stopped"
    BY <1>1 DEF CapacityInv, RowInv
  <2>3. \A w \in Vms : rows[w].state = "absent" => rows'[w].state = "absent"
    BY <1>1 DEF Known
  <2>4. \A w \in Vms : live'[w] # "stopped" => w \in Active
    BY DEF Active
  <2> QED BY <2>1, <2>2, <2>3, <2>4, Shrinks
<1>3. WorkInv'
  BY <1>1 DEF WorkInv
<1> QED BY <1>2, <1>3 DEF CapacityInv

LEMMA CapacityStops ==
  ASSUME HostInv, CapacityInv, NEW v \in Vms, Stop(v)
  PROVE  CapacityInv'
<1>1. UNCHANGED <<rows, live>> /\ op'.vm = v /\ op'.at = "end" /\ op'.call = "stop" /\ op'.row = rows[v]
  BY DEF Stop, World, Database, Begin
<1>2. RowInv' /\ SumInv'
  BY <1>1, RowsStay
<1> QED BY <1>1, <1>2 DEF CapacityInv, WorkInv

\* The engine is asked of every guest there is: a container's runtime is the agent's.
LEMMA ActualLive ==
  ASSUME HostInv, Up, NEW v \in Vms
  PROVE  Actual(v) = live[v]
<1>1. CASE Reachable(v)
  BY <1>1 DEF Actual
<1>2. CASE ~Reachable(v)
  <2>1. agent.runtime = meta.runtime
    BY DEF HostInv, BindingInv, Up
  <2>2. live[v] = "stopped"
    BY <1>2, <2>1 DEF Reachable, HostInv, HeldInv, HeldRule
  <2> QED BY <1>2, <2>2 DEF Actual
<1> QED BY <1>1, <1>2

LEMMA CapacityScans ==
  ASSUME HostInv, CapacityInv, NEW v \in Vms, Reconcile(v)
  PROVE  CapacityInv'
<1> DEFINE row == Observed(v)
           was == rows[v].state
<1>0. v \in Known /\ Up /\ op = Idle /\ UNCHANGED live /\ rows[v] \in Row /\ live[v] \in Guest /\ Actual(v) = live[v]
  BY ActualLive DEF Reconcile, Scans, Ready, World, HostInv, HostType
<1>1. was # "deleting" =>
        /\ row.state \in Working \union {"stopped"}
        /\ row.state = "stopped" => live[v] = "stopped"
        /\ row.state \in Working => v \in Active
        /\ live[v] # "stopped" => row.state \in Working /\ was \in Working
  <2>1. was \in Working \union {"stopped", "deleting"}
    BY <1>0 DEF Known, Row, States, Working
  <2>2. live[v] # "stopped" => was # "stopped" /\ v \in Active
    BY DEF CapacityInv, RowInv, Active
  <2>3. row.state = (IF was = "creating" /\ ~Live(live[v]) THEN "failed"
                     ELSE IF was = "failed" /\ ~Live(live[v]) THEN "failed" ELSE live[v])
    BY <1>0 DEF Observed, Row
  <2>4. live[v] # "stopped" <=> Live(live[v])
    BY <1>0 DEF Live, Guest
  <2>5. was \in Working => v \in Active
    BY DEF Active
  <2> QED BY <1>0, <2>1, <2>2, <2>3, <2>4, <2>5 DEF Working, Guest
<1>2. CASE was = "deleting" /\ Destroys(v)
  BY <1>0, <1>2, CapacityDestroys
<1>3. CASE was # "deleting" /\ NeedsRecovery(v) /\ Begin("reconcile", v, "network", row, was) /\ UNCHANGED rows
  <2>1. live[v] # "stopped"
    BY <1>0, <1>3 DEF NeedsRecovery, Live
  <2>2. RowInv' /\ SumInv'
    BY <1>0, <1>3, RowsStay
  <2>3. op'.vm = v /\ op'.at = "network" /\ op'.call = "reconcile" /\ op'.row = row
    BY <1>3 DEF Begin
  <2> QED BY <1>1, <1>3, <2>1, <2>2, <2>3 DEF CapacityInv, WorkInv
<1>4. ASSUME was # "deleting", UNCHANGED op, NEW saved, Save(v, saved), saved.state = row.state PROVE CapacityInv'
  <2>1. rows'[v] = saved /\ \A w \in Vms : w # v => rows'[w] = rows[w]
    BY <1>4 DEF Save, HostInv, HostType
  <2>2. v \in Active \/ (live'[v] = "stopped" /\ rows'[v].state \notin Working)
    BY <1>0, <1>1, <1>4, <2>1 DEF Active
  <2> QED BY <1>0, <1>1, <1>4, <2>1, <2>2, WorkEnds
<1>5. Recovered(row, was).state = row.state
  <2>1. row \in Row
    BY <1>0 DEF Observed, Actual, Row, States, Errors, RecoveryOwned, None, Guest
  <2> QED BY <2>1 DEF Recovered, Row
<1> QED BY <1>2, <1>3, <1>4, <1>5 DEF Reconcile

\* A failed step of a creation, a start or a recovery.
LEMMA CapacityAborts ==
  ASSUME HostInv, CapacityInv, op # Idle, op.at \in Buildings, Abort,
         \A v \in Vms : v # op.vm => live'[v] = live[v]
  PROVE  CapacityInv'
<1>1. V \in Known /\ V \in Vms /\ V = op.vm /\ op.row \in Row /\ op.call \notin {"stop", "destroy"}
  BY OpRow DEF V, HostInv, OpInv, Buildings, Endings, Cleanings
<1>2. {op.row.state, rows[V].state} \subseteq Working
  BY <1>1 DEF CapacityInv, WorkInv
<1>3. FailedRow.state \in Working
  BY <1>1, <1>2 DEF FailedRow, Row, Working
<1>4. op' = Idle /\ rows'[V] = FailedRow /\ \A v \in Vms : v # V => rows'[v] = rows[v]
  BY <1>1 DEF Abort, Finish, Save, HostInv, HostType
<1>5. V \in Active
  BY <1>1, <1>2 DEF Active
<1>6. rows'[V].state # "stopped"
  BY <1>3, <1>4 DEF Working
<1> QED BY <1>1, <1>4, <1>5, <1>6, WorkEnds

\* One that ends with its guest running.
LEMMA CapacityServes ==
  ASSUME HostInv, CapacityInv, op # Idle, op.at \in Buildings, op' = Idle, NEW row, Save(op.vm, row), row.state \in Working,
         \A v \in Vms : v # op.vm => live'[v] = live[v]
  PROVE  CapacityInv'
<1>1. V \in Known /\ V \in Vms /\ V = op.vm /\ op.call \notin {"stop", "destroy"}
  BY OpRow DEF V, HostInv, OpInv, Buildings, Endings, Cleanings
<1>2. V \in Active
  BY <1>1 DEF CapacityInv, WorkInv, Active
<1>3. rows'[V] = row /\ \A v \in Vms : v # V => rows'[v] = rows[v]
  BY <1>1 DEF Save, HostInv, HostType
<1>4. rows'[V].state # "stopped"
  BY <1>3 DEF Working
<1> QED BY <1>1, <1>2, <1>3, <1>4, WorkEnds

LEMMA CapacityBuilds == HostInv /\ CapacityInv /\ (Restoring \/ Creating \/ StepFails \/ Settle) => CapacityInv'
<1> SUFFICES ASSUME HostInv, CapacityInv, Restoring \/ Creating \/ StepFails \/ Settle PROVE CapacityInv'
  OBVIOUS
<1>0. op # Idle /\ op.at \in Buildings /\ op \in Op /\ op.row \in Row /\ V = op.vm /\ V \in Vms
  <2>1. op.at \in Buildings /\ op.at # None
    BY DEF Restoring, Isolate, Tap, Unforward, Forward, ForwardFails, Fails, Deny, Ingress, Creating, Seed,
       EnsureNetwork, Clone, Fill, CopyFails, NothingToLaunch, Launch, LaunchFails, StepFails, Settle, Proceeds, At,
       None, Buildings
  <2> QED BY <2>1, AtWork, OpRow DEF V
<1>1. ASSUME NEW next \in Buildings, Go(next), UNCHANGED <<rows, live>> PROVE CapacityInv'
  <2>1. op'.vm = op.vm /\ op'.row = op.row /\ op'.call = op.call /\ op'.at # "stopped"
    BY <1>0, <1>1 DEF Go, Op, Buildings
  <2> QED BY <1>0, <1>1, <2>1, WorkStays
<1>2. CASE Isolate \/ Tap \/ Unforward \/ Forward \/ Deny \/ Ingress \/ Seed \/ EnsureNetwork \/ Clone \/ Fill
  <2>1. UNCHANGED <<rows, live>>
    BY <1>2 DEF Isolate, Tap, Unforward, Forward, Deny, Ingress, Seed, EnsureNetwork, Clone, Fill, Proceeds, Database
  <2>2. \E next \in Buildings : Go(next)
    BY <1>2 DEF Isolate, Tap, Unforward, Forward, Deny, Ingress, Seed, EnsureNetwork, AfterNetwork, Clone, Fill,
       Proceeds, Buildings
  <2> QED BY <1>1, <2>1, <2>2
<1>3. CASE ForwardFails \/ CopyFails \/ NothingToLaunch \/ StepFails \/ LaunchFails
  <2>1. Abort
    BY <1>3 DEF ForwardFails, CopyFails, NothingToLaunch, StepFails, LaunchFails, Fails
  <2>2. \A v \in Vms : v # op.vm => live'[v] = live[v]
    BY <1>0, <1>3 DEF ForwardFails, CopyFails, NothingToLaunch, StepFails, LaunchFails, World, HostInv, HostType
  <2> QED BY <1>0, <2>1, <2>2, CapacityAborts
<1>4. CASE Launch
  <2> DEFINE row == [op.row EXCEPT !.state = "running", !.error = None]
  <2>1. row.state \in Working
    BY <1>0 DEF Row, Working
  <2>2. op' = Idle /\ Save(op.vm, row) /\ \A v \in Vms : v # op.vm => live'[v] = live[v]
    BY <1>0, <1>4 DEF Launch, Finish, HostInv, HostType
  <2> QED BY <1>0, <2>1, <2>2, CapacityServes
<1>5. CASE Settle
  <2> DEFINE row == Recovered(op.row, op.was)
  <2>1. row.state = op.row.state
    BY <1>0 DEF Recovered, Row
  <2>2. op.row.state \in Working
    BY <1>0 DEF CapacityInv, WorkInv, HostInv, OpInv, Buildings, Endings, Cleanings
  <2>3. op' = Idle /\ Save(op.vm, row) /\ UNCHANGED live
    BY <1>0, <1>5 DEF Settle, Finish, World
  <2> QED BY <1>0, <2>1, <2>2, <2>3, CapacityServes
<1> QED BY <1>2, <1>3, <1>4, <1>5 DEF Restoring, Creating

LEMMA CapacityCleans == HostInv /\ CapacityInv /\ (Ending \/ Cleaning) => CapacityInv'
<1> SUFFICES ASSUME HostInv, CapacityInv, Ending \/ Cleaning PROVE CapacityInv'
  OBVIOUS
<1>0. op # Idle /\ op.at \in Endings /\ V \in Known /\ V \in Vms /\ V = op.vm /\ op \in Op /\ op.row \in Row /\ Up
  <2>1. op.at \in Endings /\ op.at # None
    BY DEF Ending, End, EndFails, Stopped, Cleaning, Unload, Unpublish, Release, Allow, Untap, Unisolate, RemoveDisk,
       Cleans, CleanupFails, Conclude, Proceeds, At, Cleanings, Endings, After, None
  <2> QED BY <2>1, AtWork, OpRow DEF V
<1>1. op.row.state = rows[V].state
  BY <1>0 DEF HostInv, OpInv, CapacityInv, WorkInv
<1>2. CASE End
  <2>1. live'[V] = "stopped" /\ \A v \in Vms : v # V => live'[v] = live[v]
    <3>1. CASE Reachable(V)
      BY <1>0, <1>2, <3>1 DEF End, HostInv, HostType
    <3>2. CASE ~Reachable(V)
      BY <1>0, <1>2, <3>2, ActualLive DEF End, Actual
    <3> QED BY <3>1, <3>2
  <2>2. UNCHANGED rows /\ op'.vm = op.vm /\ op'.row = op.row /\ op'.call = op.call
    BY <1>0, <1>2 DEF End, Proceeds, Database, Go, Op
  <2> QED BY <1>0, <2>1, <2>2, WorkStays
<1>3. CASE EndFails
  <2>1. op' = Idle /\ rows'[V].state = op.row.state /\ \A v \in Vms : v # V => rows'[v] = rows[v]
    BY <1>0, <1>3 DEF EndFails, Finish, Save, HostInv, HostType, Row
  <2>2. \A v \in Vms : live'[v] # "stopped" => live[v] # "stopped"
    BY <1>0, <1>3 DEF EndFails, HostInv, HostType
  <2>3. \A v \in Vms : rows'[v].state = rows[v].state
    BY <1>1, <2>1
  <2>4. RowInv' /\ SumInv'
    BY <2>2, <2>3, RowsStay
  <2> QED BY <2>1, <2>4 DEF CapacityInv, WorkInv
<1>4. CASE Stopped
  <2>1. op' = Idle /\ rows'[V].state = "stopped" /\ live' = live /\ \A v \in Vms : v # V => rows'[v] = rows[v]
    BY <1>0, <1>4 DEF Stopped, Finish, Save, World, HostInv, HostType, Row
  <2>2. live[V] = "stopped"
    BY <1>0, <1>4 DEF Stopped, At, CapacityInv, WorkInv
  <2> QED BY <1>0, <2>1, <2>2, WorkEnds DEF Working
<1>5. CASE Conclude
  <2>1. op' = Idle /\ live' = live /\ \A v \in Vms : v # V => rows'[v] = rows[v]
    BY <1>0, <1>5 DEF Conclude, Finish, Save, HostInv, HostType
  <2>2. live[V] = "stopped"
    BY <1>0, <1>5 DEF HostInv, CleanInv, Conclude, At, Cleanings
  <2>3. rows'[V].state \in {"absent", op.row.state}
    <3>1. CASE Deletable
      BY <1>0, <1>5, <3>1 DEF Conclude, Save, NoRow, HostInv, HostType
    <3>2. CASE ~Deletable
      <4>1. rows'[V] = [op.row EXCEPT !.error = "operation failed"]
        BY <1>0, <1>5, <3>2 DEF Conclude, Save, HostInv, HostType
      <4>2. op.row \in Row
        BY <1>0
      <4> QED BY <4>1, <4>2 DEF Row
    <3> QED BY <3>1, <3>2
  <2>4. V \in Active \/ (live'[V] = "stopped" /\ rows'[V].state \notin Working)
    BY <1>0, <1>1, <2>1, <2>2, <2>3 DEF Active, Working
  <2> QED BY <1>0, <2>1, <2>2, <2>4, WorkEnds
<1>6. CASE Cleaning /\ ~Conclude
  <2>1. UNCHANGED <<rows, live>>
    BY <1>6 DEF Cleaning, Unload, Unpublish, Release, Allow, Untap, Unisolate, RemoveDisk, Cleans, CleanupFails,
       Proceeds, Database, World
  <2>2. op'.vm = op.vm /\ op'.row = op.row /\ op'.call = op.call /\ op'.at \in Cleanings
    <3>1. ASSUME NEW step \in DOMAIN After, Proceeds(step, After[step])
          PROVE  op'.vm = op.vm /\ op'.row = op.row /\ op'.call = op.call /\ op'.at \in Cleanings
      <4>1. After[step] \in Cleanings
        BY DEF After, Cleanings
      <4> QED BY <1>0, <3>1, <4>1 DEF Proceeds, Go, Op
    <3>3. CASE CleanupFails
      <4>1. After[op.at] \in Cleanings
        BY <3>3 DEF CleanupFails, After, Cleanings
      <4> QED BY <1>0, <3>3, <4>1 DEF CleanupFails, Op
    <3>4. {"unload", "unpublish", "release", "allow", "untap", "unisolate", "remove"} = DOMAIN After
      BY DEF After
    <3>5. CASE Unload \/ Unpublish \/ Untap \/ Unisolate \/ RemoveDisk
      BY <3>1, <3>4, <3>5 DEF Unload, Unpublish, Untap, Unisolate, RemoveDisk, Cleans
    <3>6. CASE Release \/ Allow
      BY <3>1, <3>4, <3>6 DEF Release, Allow
    <3> QED BY <1>6, <3>3, <3>5, <3>6 DEF Cleaning
  <2> QED BY <1>0, <2>1, <2>2, WorkStays DEF Cleanings
<1> QED BY <1>2, <1>3, <1>4, <1>5, <1>6 DEF Ending

LEMMA CapacityNext == HostInv /\ CapacityInv /\ [Next]_vars => CapacityInv'
<1> SUFFICES ASSUME HostInv, CapacityInv, [Next]_vars PROVE CapacityInv'
  OBVIOUS
<1>1. CASE Starting
  <2>1. op' = Idle /\ UNCHANGED live
    BY <1>1 DEF Starting, Open, BindRuntime, BindNetwork, HostInv, OpInv, Up, World
  <2>2. \A v \in Vms : rows'[v].state = rows[v].state
    BY <1>1 DEF Starting, Open, BindRuntime, BindNetwork, HostInv, HostType, Row
  <2>3. RowInv' /\ SumInv'
    BY <2>1, <2>2, RowsStay
  <2> QED BY <2>1, <2>3 DEF CapacityInv, WorkInv
<1>2. ASSUME NEW v \in Vms, Destroy(v) PROVE CapacityInv'
  BY <1>2, CapacityDestroys DEF Destroy, World
<1>3. ASSUME NEW v \in Vms, QueryFails(v) \/ Damage(v) PROVE CapacityInv'
  <2>1. op = Idle /\ UNCHANGED <<op, live>>
    BY <1>3 DEF QueryFails, Damage, Scans, Ready, World
  <2>2. \A w \in Vms : rows'[w].state = rows[w].state
    <3>1. rows[v] \in Row /\ \A w \in Vms : w # v => rows'[w] = rows[w]
      BY <1>3 DEF QueryFails, Damage, Save, HostInv, HostType
    <3>2. CASE QueryFails(v)
      <4>1. rows'[v] = [rows[v] EXCEPT !.error = "cannot query engine"]
        BY <3>2 DEF QueryFails, Save, HostInv, HostType
      <4>2. rows'[v].state = rows[v].state
        BY <3>1, <4>1 DEF Row
      <4> QED BY <3>1, <4>2
    <3>3. CASE Damage(v)
      <4>1. rows'[v] = [rows[v] EXCEPT !.readable = FALSE]
        BY <3>3 DEF Damage, Save, HostInv, HostType
      <4>2. rows'[v].state = rows[v].state
        BY <3>1, <4>1 DEF Row
      <4> QED BY <3>1, <4>2
    <3> QED BY <1>3, <3>2, <3>3
  <2>3. RowInv' /\ SumInv'
    BY <2>1, <2>2, RowsStay
  <2> QED BY <2>1, <2>3 DEF CapacityInv, WorkInv
<1>4. ASSUME NEW v \in Vms, GuestEnds(v) \/ Pauses(v) PROVE CapacityInv'
  <2>1. UNCHANGED <<op, rows>> /\ \A w \in Vms : live'[w] # "stopped" => live[w] # "stopped"
    BY <1>4 DEF GuestEnds, Pauses, Database, HostInv, HostType
  <2>2. RowInv' /\ SumInv'
    BY <2>1, RowsStay
  <2>3. op # Idle /\ live[op.vm] = "stopped" => live'[op.vm] = "stopped"
    BY <2>1, OpRow DEF V
  <2> QED BY <2>1, <2>2, <2>3 DEF CapacityInv, WorkInv
<1>5. CASE Crash \/ Reload \/ Reboot
  <2>1. op' = Idle /\ UNCHANGED rows /\ \A v \in Vms : live'[v] # "stopped" => live[v] # "stopped"
    BY <1>5 DEF Crash, Reload, Reboot, Database, World, HostInv, OpInv, Up
  <2>2. RowInv' /\ SumInv'
    BY <2>1, RowsStay
  <2> QED BY <2>1, <2>2 DEF CapacityInv, WorkInv
<1>6. CASE UNCHANGED vars
  BY <1>6 DEF vars, CapacityInv, RowInv, SumInv, WorkInv, Active, Known
<1> QED
  BY <1>1, <1>2, <1>3, <1>4, <1>5, <1>6, CapacityCreates, CapacityStarts, CapacityStops, CapacityScans,
     CapacityBuilds, CapacityCleans
  DEF Next, Works, Calls, Events

\* Guests never outnumber the processors, nor rows the disks.
THEOREM CapacityHolds == Spec => []NeverOvercommitted
<1>1. Init => HostInv /\ CapacityInv
  BY HostInitInv, CapacityInit
<1>2. (HostInv /\ CapacityInv) /\ [Next]_vars => (HostInv /\ CapacityInv)'
  BY HostNextInv, CapacityNext
<1>3. HostInv /\ CapacityInv => NeverOvercommitted
  <2> SUFFICES ASSUME HostInv, CapacityInv PROVE NeverOvercommitted
    OBVIOUS
  <2> DEFINE Guests == {v \in Vms : live[v] # "stopped"}
  <2>1. Guests \subseteq Active /\ Guests \subseteq Vms /\ Active \subseteq Vms
    BY DEF Active
  <2>2. Cardinality(Guests) <= Cardinality(Active) /\ Cardinality(Guests) \in Nat /\ Cardinality(Active) \in Nat
        /\ Cpus \in Nat
    BY <2>1, VmsFinite, AgentHostAssumption
  <2>3. Cardinality(Guests) <= Cpus
    BY <2>2 DEF CapacityInv, SumInv
  <2> QED BY <2>3 DEF NeverOvercommitted, CapacityInv, SumInv
<1> QED BY <1>1, <1>2, <1>3, PTL DEF Spec
=============================================================================
