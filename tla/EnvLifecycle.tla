---------------------------- MODULE EnvLifecycle ----------------------------
(***************************************************************************)
(* The controller and one environment name: the environment's row and its  *)
(* VMs' rows, the operation that holds its lock, the fleet refresh that    *)
(* reads agents meanwhile, the expiry task, backup inspections, and the    *)
(* agents that carry out requests in order, also those whose caller has    *)
(* given up.  Reads of an agent never wait for its requests.               *)
(***************************************************************************)
EXTENDS Integers, FiniteSets, Sequences

CONSTANTS
  Hosts, Vms,       \* hosts, and VM ids that creations draw from
  NoVm,             \* no VM
  Home,             \* the host a creation with that VM id places it on
  Sizes,            \* sizes of a VM, the least one requested at creation
  Loops,            \* fleet refreshes not owned by this environment's operation
  Own,              \* the refresh made by the operation itself
  Kinds,            \* bound: operations clients ask for
  EnvSize,          \* bound: VMs of a creation
  MaxOps,           \* bound: operations clients ask for
  MaxFailures,      \* bound: calls refused, lost, timed out or failed
  MaxCrashes,       \* bound: restarts of the controller or an agent
  MaxElsewhere,     \* bound: revisions made by other environments
  MaxInspections    \* bound: backup inspections

AllKinds == {"create", "delete", "start", "stop", "resize"}
Readers == Loops \union {Own}

ASSUME FleetAssumption ==
  /\ IsFiniteSet(Vms) /\ NoVm \notin Vms /\ Home \in [Vms -> Hosts]
  /\ Sizes \subseteq Nat \ {0} /\ \E s \in Sizes : \A t \in Sizes : s <= t
  /\ Own \notin Loops
  /\ Kinds \subseteq AllKinds /\ EnvSize \in Nat \ {0}
ASSUME FleetBounds ==
  /\ MaxOps \in Nat /\ MaxFailures \in Nat /\ MaxCrashes \in Nat
  /\ MaxElsewhere \in Nat /\ MaxInspections \in Nat

VARIABLES
  env,        \* the environment's row: its state, and whether its lifetime is over
  vms,        \* the rows of its VMs: the controller's last knowledge of each
  hosts,      \* registered hosts
  online,     \* those among them last seen online
  op,         \* the operation holding the environment's lock
  answer,     \* the answer the operation waits for
  reads,      \* fleet refreshes under way; one is current until CtlShared::revision moves
  look,       \* an inspected VM that is not recorded yet
  sweep,      \* the expiry task has this name on its list
  queue,      \* per agent: accepted requests in mutex order
  guest,      \* per agent: its row of each VM
  used,       \* history: VM ids drawn
  orphans,    \* history: VMs whose tracking a detached host took along
  asked, failures, crashes, elsewhere, looked

database == <<env, vms, hosts, online>>
process == <<op, answer, reads, look, sweep>>
agents == <<queue, guest>>
history == <<used, orphans>>
bounds == <<asked, failures, crashes, elsewhere, looked>>
vars == <<database, process, agents, history, bounds>>

Least == CHOOSE s \in Sizes : \A t \in Sizes : s <= t

(***************************************************************************)
(* Records.                                                                *)
(***************************************************************************)
States == {"creating", "running", "stopped", "failed", "deleting"}
\* served counts the requests the agent has finished for the VM
Guest == [state: States \union {"absent"}, error: BOOLEAN, size: Sizes,
          pending: Sizes \union {0}, served: Nat]
NoGuest == [state |-> "absent", error |-> FALSE, size |-> Least, pending |-> 0, served |-> 0]

\* confirmed: served at the last answer recorded; fresh: the row is not older than that
Row == [state: States \union {"untracked"}, error: BOOLEAN, size: Sizes, pending: Sizes \union {0},
        confirmed: Nat, fresh: BOOLEAN]
Planned == [state |-> "creating", error |-> FALSE, size |-> Least, pending |-> 0,
            confirmed |-> 0, fresh |-> TRUE]
NoRow == [Planned EXCEPT !.state = "untracked"]
NoRows == [v \in Vms |-> NoRow]

Request == [kind: AllKinds, vm: Vms, target: Sizes, waited: BOOLEAN, begun: BOOLEAN]

NoOp == [kind |-> "none", step |-> "none", vm |-> NoVm, target |-> Least,
         todo |-> {}, failed |-> FALSE, saved |-> NoRows, up |-> {}]
NoAnswer == [is |-> "none", guest |-> NoGuest]
Snapshot == [is: {"none", "up", "down"}, guests: [Vms -> Guest]]
NoSnapshot == [is |-> "none", guests |-> [v \in Vms |-> NoGuest]]
NoRead == [step |-> "idle", current |-> FALSE, left |-> {}, got |-> [h \in Hosts |-> NoSnapshot]]
NoLook == [vm |-> NoVm, guest |-> NoGuest]

Init ==
  /\ env = [state |-> "none", due |-> FALSE] /\ vms = NoRows
  /\ hosts = Hosts /\ online = Hosts
  /\ op = NoOp /\ answer = NoAnswer
  /\ reads = [r \in Readers |-> NoRead] /\ look = NoLook /\ sweep = FALSE
  /\ queue = [h \in Hosts |-> <<>>] /\ guest = [v \in Vms |-> NoGuest]
  /\ used = {} /\ orphans = {}
  /\ asked = 0 /\ failures = 0 /\ crashes = 0 /\ elsewhere = 0 /\ looked = 0

Tracked == {v \in Vms : vms[v].state # "untracked"}
TrackedOn(h) == {v \in Tracked : Home[v] = h}
Busy == op.kind # "none"
May(counter, bound) == counter < bound /\ counter' = counter + 1

\* revision.fetch_add: what refreshes under way have read is out of date
Bump == reads' = [r \in Readers |-> [reads[r] EXCEPT !.current = FALSE]]
\* Operation::drop: the revision moves before the lock is free
Drop == op' = NoOp /\ Bump

(***************************************************************************)
(* The rows.                                                               *)
(***************************************************************************)
\* update_env_state
Summary ==
  IF \E v \in Tracked : Home[v] \notin online THEN "failed"
  ELSE IF Tracked = {} \/ \E v \in Tracked : vms[v].error THEN "failed"
  ELSE IF \E v \in Tracked : vms[v].state = "creating" THEN "creating"
  ELSE IF \A v \in Tracked : vms[v].state = "running" THEN "active"
  ELSE IF \A v \in Tracked : vms[v].state = "stopped" THEN "stopped"
  ELSE "failed"
UpdatedEvenDeleting ==
  IF env.state = "none" THEN env ELSE [env EXCEPT !.state = Summary]
Updated ==
  IF env.state \in {"none", "deleting"} THEN env ELSE [env EXCEPT !.state = Summary]

\* merge_vm_snapshot: an unfinished resize stays recorded until its sizes are seen
MergedForgetting(known, g) ==
  [state |-> g.state, error |-> g.error, size |-> g.size, pending |-> g.pending,
   confirmed |-> known.confirmed, fresh |-> g.served >= known.confirmed]
Merged(known, g) ==
  LET unseen == known.pending # 0 /\ g.pending = 0 /\ g.size # known.pending
  IN [state |-> g.state, error |-> g.error \/ unseen, size |-> g.size,
      pending |-> IF unseen THEN known.pending ELSE g.pending,
      confirmed |-> known.confirmed, fresh |-> g.served >= known.confirmed]

\* a VM missing from a snapshot keeps its row
MissingUnnoticed(known, g) == known
Missing(known, g) ==
  [known EXCEPT !.state = "failed", !.error = TRUE, !.fresh = g.served >= known.confirmed]
Observed(known, g) == IF g.state = "absent" THEN Missing(known, g) ELSE Merged(known, g)

\* an answer that carries the VM replaces the row
Confirmed(g) ==
  [state |-> g.state, error |-> g.error, size |-> g.size, pending |-> g.pending,
   confirmed |-> g.served, fresh |-> TRUE]

Without(S) == [v \in Vms |-> IF v \in S THEN NoRow ELSE vms[v]]

(***************************************************************************)
(* Operations begin.                                                       *)
(***************************************************************************)
Begin(kind, step) ==
  /\ ~Busy /\ kind \in Kinds /\ May(asked, MaxOps) /\ Bump
  /\ UNCHANGED <<failures, crashes, elsewhere, looked>>

BeginCreate ==
  /\ Begin("create", "plan") /\ op' = [NoOp EXCEPT !.kind = "create", !.step = "plan"]
  /\ UNCHANGED <<database, answer, look, sweep, agents, history>>

\* delete_environment_inner, for a client or for expiry
StartsDeleting(kind) ==
  /\ env' = [env EXCEPT !.state = "deleting"]
  /\ op' = [NoOp EXCEPT !.kind = kind, !.step = "send", !.todo = Tracked, !.up = online]

BeginDelete ==
  /\ Begin("delete", "send") /\ env.state # "none" /\ StartsDeleting("delete")
  /\ UNCHANGED <<vms, hosts, online, answer, look, sweep, agents, history>>

\* Expiry works from its list; the row is read again under the lock.
ListedWhenDue == env.state # "none" /\ env.due
Listed == env.state = "deleting" \/ (env.state # "none" /\ env.due)
MayExpireListed == env.state # "none"
MayExpire == env.state = "deleting" \/ (env.state # "none" /\ env.due)
Sweep ==
  /\ ~sweep /\ Listed /\ sweep' = TRUE
  /\ UNCHANGED <<database, op, answer, reads, look, agents, history, bounds>>
BeginExpire ==
  /\ sweep /\ sweep' = FALSE
  /\ \/ Busy /\ UNCHANGED <<env, op, reads>>
     \/ ~Busy /\ ~MayExpire /\ Bump /\ UNCHANGED <<env, op>>
     \/ ~Busy /\ MayExpire /\ Bump /\ StartsDeleting("expire")
  /\ UNCHANGED <<vms, hosts, online, answer, look, agents, history, bounds>>

Settled == env.state \notin {"none", "creating", "deleting"}

\* change_environment; a start reserves before any agent is asked
BeginStop ==
  /\ Begin("stop", "send") /\ Settled
  /\ op' = [NoOp EXCEPT !.kind = "stop", !.step = "send", !.todo = Tracked, !.saved = vms]
  /\ UNCHANGED <<database, answer, look, sweep, agents, history>>
BeginStart ==
  /\ Begin("start", "reserve") /\ Settled /\ \A v \in Tracked : vms[v].pending = 0
  /\ op' = [NoOp EXCEPT !.kind = "start", !.step = "reserve", !.saved = vms]
  /\ UNCHANGED <<database, answer, look, sweep, agents, history>>
Reserve ==
  /\ op.step = "reserve" /\ op' = [op EXCEPT !.step = "send", !.todo = Tracked]
  /\ vms' = [v \in Vms |-> IF op.saved[v].state # "stopped" THEN op.saved[v]
                          ELSE [op.saved[v] EXCEPT !.state = "creating"]]
  /\ Bump
  /\ UNCHANGED <<env, hosts, online, answer, look, sweep, agents, history, bounds>>

\* resize_virtual_machine refreshes the VM's host before it checks anything
BeginResize(v, target) ==
  /\ Begin("resize", "survey") /\ v \in Tracked /\ Settled
  /\ op' = [NoOp EXCEPT !.kind = "resize", !.step = "survey", !.vm = v, !.target = target]
  /\ UNCHANGED <<database, answer, look, sweep, agents, history>>

(***************************************************************************)
(* Operations go on.                                                       *)
(***************************************************************************)
\* One transaction saves the environment, its VMs and the hosts' reservations.
Placements == {new \in SUBSET (Vms \ used) :
                 Cardinality(new) = EnvSize /\ \A v \in new : Home[v] \in online}
Plan ==
  /\ op.step = "plan"
  /\ \/ Drop /\ UNCHANGED <<env, vms, used>>     \* the name is taken, or nothing fits
     \/ /\ env.state = "none"
        /\ \E new \in Placements :
             /\ env' = [state |-> "creating", due |-> FALSE]
             /\ vms' = [v \in Vms |-> IF v \in new THEN Planned ELSE vms[v]]
             /\ used' = used \union new
             /\ op' = [op EXCEPT !.step = "send", !.todo = new]
        /\ Bump
  /\ UNCHANGED <<hosts, online, answer, look, sweep, agents, orphans, bounds>>

\* Checks of a resize after its refresh; its intent is saved before the agent is asked.
MayResize ==
  /\ op.vm \in Tracked /\ Home[op.vm] \in online
  /\ LET row == vms[op.vm]
     IN row.state = "stopped" /\ row.pending \in {0, op.target} /\ op.target >= row.size
Ask ==
  /\ op.step = "ask"
  /\ \/ Drop /\ UNCHANGED vms                    \* refused, also for want of room
     \/ /\ MayResize /\ Bump
        /\ vms' = [vms EXCEPT ![op.vm] = [@ EXCEPT !.pending = op.target, !.error = TRUE]]
        /\ op' = [op EXCEPT !.step = "send", !.todo = {op.vm}, !.saved = vms]
  /\ UNCHANGED <<env, hosts, online, answer, look, sweep, agents, history, bounds>>

RequestKind == IF op.kind = "expire" THEN "delete" ELSE op.kind
Deletes == op.kind \in {"delete", "expire"}
After == IF Deletes THEN "conclude" ELSE "refresh"

\* deletion asks only hosts that were online when it began
Reaches(v) == Deletes => Home[v] \in op.up

Send(v) ==
  /\ op.step = "send" /\ v \in op.todo /\ Reaches(v) /\ ~(op.kind = "create" /\ env.due)
  /\ queue' = [queue EXCEPT ![Home[v]] = Append(@,
       [kind |-> RequestKind, vm |-> v, target |-> op.target, waited |-> TRUE, begun |-> FALSE])]
  /\ op' = [op EXCEPT !.step = "wait", !.vm = v, !.todo = @ \ {v}]
  /\ UNCHANGED <<database, answer, reads, look, sweep, guest, history, bounds>>

SendFails(v) ==
  /\ op.step = "send" /\ v \in op.todo /\ Reaches(v) /\ ~(op.kind = "create" /\ env.due)
  /\ May(failures, MaxFailures)
  /\ answer' = [NoAnswer EXCEPT !.is = "error"]
  /\ op' = [op EXCEPT !.step = "wait", !.vm = v, !.todo = @ \ {v}]
  /\ UNCHANGED <<database, reads, look, sweep, agents, history, asked, crashes, elsewhere, looked>>

\* a host that is not online is not asked; its VM stays
SkipHost(v) ==
  /\ op.step = "send" /\ v \in op.todo /\ ~Reaches(v)
  /\ op' = [op EXCEPT !.todo = @ \ {v}, !.failed = TRUE]
  /\ UNCHANGED <<database, answer, reads, look, sweep, agents, history, bounds>>

SendsDone ==
  /\ op.step = "send" /\ (op.todo = {} \/ (op.kind = "create" /\ env.due))
  /\ op' = [op EXCEPT !.step = After, !.todo = {}]
  /\ UNCHANGED <<database, answer, reads, look, sweep, agents, history, bounds>>

Abandoned(q) == [i \in DOMAIN q |-> [q[i] EXCEPT !.waited = FALSE]]
Timeout ==
  /\ op.step = "wait" /\ answer.is = "none" /\ May(failures, MaxFailures)
  /\ answer' = [NoAnswer EXCEPT !.is = "error"]
  /\ queue' = [h \in Hosts |-> Abandoned(queue[h])]
  /\ UNCHANGED <<database, op, reads, look, sweep, guest, history, asked, crashes, elsewhere, looked>>

Answered(kind) == op.step = "wait" /\ op.kind = kind /\ answer.is # "none"
Continue(failed) ==
  /\ op' = [op EXCEPT !.step = "send", !.failed = @ \/ failed, !.vm = NoVm]
  /\ answer' = NoAnswer
  /\ UNCHANGED <<env, hosts, online, reads, look, sweep, agents, history, bounds>>
Succeeded == answer.is = "ok"

\* a timed-out creation keeps its VM, with the error
TakeCreated ==
  /\ Answered("create")
  /\ vms' = [vms EXCEPT ![op.vm] =
       IF Succeeded THEN Confirmed(answer.guest) ELSE [@ EXCEPT !.error = TRUE]]
  /\ Continue(FALSE)

\* the row goes only when the agent has confirmed
DeletedByAny == answer.is # "none"
Deleted == Succeeded
TakeDeleted ==
  /\ Answered("delete") \/ Answered("expire")
  /\ vms' = IF Deleted THEN Without({op.vm}) ELSE vms
  /\ Continue(~Deleted)

\* a copy of the row read at the beginning, with the confirmed state
TakeChanged ==
  /\ Answered("start") \/ Answered("stop")
  /\ vms' = IF ~Succeeded THEN vms ELSE [vms EXCEPT ![op.vm] =
       [op.saved[op.vm] EXCEPT !.state = IF op.kind = "start" THEN "running" ELSE "stopped",
          !.error = FALSE, !.confirmed = answer.guest.served, !.fresh = TRUE]]
  /\ Continue(~Succeeded)

\* Only the refusal of a first request withdraws the intent.
Withdraws == answer.is = "refused" /\ op.saved[op.vm].pending = 0
TakeResized ==
  /\ Answered("resize")
  /\ vms' = [vms EXCEPT ![op.vm] =
       IF Succeeded THEN Confirmed(answer.guest)
       ELSE IF Withdraws THEN op.saved[op.vm] ELSE @]
  /\ Continue(~Succeeded)

\* The end of each operation, with the last update of the environment's state.
ConcludedAnyway ==
  IF Deletes THEN [state |-> "none", due |-> FALSE] ELSE IF op.kind = "create" THEN Updated ELSE env
Concluded ==
  IF Deletes THEN (IF op.failed THEN env ELSE [state |-> "none", due |-> FALSE])
  ELSE IF op.kind = "create" THEN Updated
  ELSE IF op.kind = "resize" THEN env
  ELSE IF ~op.failed /\ Updated.state = (IF op.kind = "start" THEN "active" ELSE "stopped")
       THEN Updated ELSE [env EXCEPT !.state = "failed"]
Conclude ==
  /\ op.step = "conclude" /\ env' = Concluded /\ Drop
  /\ UNCHANGED <<vms, hosts, online, answer, look, sweep, agents, history, bounds>>

(***************************************************************************)
(* The fleet refresh.                                                      *)
(***************************************************************************)
Hosting == {h \in hosts : TrackedOn(h) # {}}

StartRead(r) ==
  /\ reads[r].step = "idle" /\ (r = Own => op.step \in {"survey", "refresh"})
  /\ reads' = [reads EXCEPT ![r] =
       [NoRead EXCEPT !.step = "reading", !.current = TRUE,
                      !.left = IF r = Own THEN Hosting ELSE hosts]]
  /\ UNCHANGED <<database, op, answer, look, sweep, agents, history, bounds>>

Reading(r, h) == h \in reads[r].left /\ reads[r].got[h].is = "none"
Got(r, h, snapshot) == reads' = [reads EXCEPT ![r].got[h] = snapshot]

\* an agent answers from its database, whatever its runtime is doing
Inventory(h) == [v \in Vms |-> IF Home[v] = h THEN guest[v] ELSE NoGuest]
Fetch(r, h) ==
  /\ Reading(r, h) /\ Got(r, h, [is |-> "up", guests |-> Inventory(h)])
  /\ UNCHANGED <<database, op, answer, look, sweep, agents, history, bounds>>
FetchFails(r, h) ==
  /\ Reading(r, h) /\ May(failures, MaxFailures) /\ Got(r, h, [NoSnapshot EXCEPT !.is = "down"])
  /\ UNCHANGED <<database, op, answer, look, sweep, agents, history,
                 asked, crashes, elsewhere, looked>>

\* apply_snapshot
CurrentAlways(r) == TRUE
Current(r) == reads[r].current
Touches(r) == r = Own \/ ~Busy
Apply(r, h) ==
  /\ reads[r].got[h].is # "none"
  /\ reads' = [reads EXCEPT ![r].left = @ \ {h}, ![r].got[h] = NoSnapshot]
  /\ LET snapshot == reads[r].got[h] IN
       IF ~Current(r) \/ h \notin hosts THEN UNCHANGED <<vms, online>>
       ELSE IF snapshot.is = "down" THEN online' = online \ {h} /\ vms' = vms
       ELSE /\ online' = online \union {h}
            /\ vms' = [v \in Vms |->
                         IF Touches(r) /\ v \in TrackedOn(h)
                         THEN Observed(vms[v], snapshot.guests[v]) ELSE vms[v]]
  /\ UNCHANGED <<env, hosts, op, answer, look, sweep, agents, history, bounds>>

EndRead(r) ==
  /\ reads[r].step = "reading" /\ reads[r].left = {}
  /\ reads' = [reads EXCEPT ![r] = NoRead]
  /\ env' = IF Touches(r) THEN Updated ELSE env
  /\ op' = IF r # Own THEN op
           ELSE [op EXCEPT !.step = IF @ = "survey" THEN "ask" ELSE "conclude"]
  /\ UNCHANGED <<vms, hosts, online, answer, look, sweep, agents, history, bounds>>

(***************************************************************************)
(* A backup inspection holds no operation lock.                            *)
(***************************************************************************)
Inspect(v) ==
  /\ look = NoLook /\ v \in Tracked /\ Home[v] \in online /\ guest[v].state # "absent"
  /\ May(looked, MaxInspections)
  /\ look' = [vm |-> v, guest |-> guest[v]]
  /\ UNCHANGED <<database, op, answer, reads, sweep, agents, history,
                 asked, failures, crashes, elsewhere>>
Retain ==
  /\ look # NoLook /\ look' = NoLook
  /\ IF look.vm \notin Tracked THEN UNCHANGED <<vms, reads>>
     ELSE /\ vms' = [vms EXCEPT ![look.vm] = Merged(@, look.guest)]
          /\ Bump
  /\ UNCHANGED <<env, hosts, online, op, answer, sweep, agents, history, bounds>>

(***************************************************************************)
(* Hosts.                                                                  *)
(***************************************************************************)
RegisterAgain(h) ==
  /\ h \notin online /\ hosts' = hosts /\ online' = online \union {h}
  /\ UNCHANGED <<env, vms, process, agents, history, bounds>>
Register(h) ==
  /\ h \notin online /\ hosts' = hosts \union {h} /\ online' = online \union {h}
  /\ UNCHANGED <<env, vms, process, agents, history, bounds>>

\* only a host without rows
Remove(h) ==
  /\ h \in hosts /\ TrackedOn(h) = {}
  /\ hosts' = hosts \ {h} /\ online' = online \ {h}
  /\ UNCHANGED <<env, vms, process, agents, history, bounds>>

Detach(h) ==
  LET lost == TrackedOn(h) IN
  /\ h \in hosts \ online /\ ~(Busy /\ lost # {})
  /\ hosts' = hosts \ {h} /\ vms' = Without(lost) /\ orphans' = orphans \union lost
  /\ env' = IF lost = {} \/ env.state = "deleting" THEN env ELSE [env EXCEPT !.state = "failed"]
  /\ Bump
  /\ UNCHANGED <<online, op, answer, look, sweep, agents, used, bounds>>

(***************************************************************************)
(* Agents: the runtime serves requests one by one, in the order of its     *)
(* mutex, and saves the intermediate state before it touches the host.     *)
(***************************************************************************)
First(h) == Head(queue[h])
Waiting(h) == queue[h] # <<>> /\ ~First(h).begun
Working(h) == queue[h] # <<>> /\ First(h).begun

Reply(h, is, g) ==
  LET done == [g EXCEPT !.served = @ + 1] IN
  /\ guest' = [guest EXCEPT ![First(h).vm] = done]
  /\ queue' = [queue EXCEPT ![h] = Tail(@)]
  /\ answer' = IF First(h).waited THEN [is |-> is, guest |-> done] ELSE answer
  /\ UNCHANGED <<database, op, reads, look, sweep, history>>

WorkOn(h, g) ==
  /\ guest' = [guest EXCEPT ![First(h).vm] = g]
  /\ queue' = [queue EXCEPT ![h][1].begun = TRUE]
  /\ UNCHANGED <<database, process, history, bounds>>

\* turned down without touching the VM
Rejects(r, g) ==
  \/ r.kind = "start" /\ (g.state \notin {"running", "stopped"} \/ g.pending # 0)
  \/ r.kind = "stop" /\ g.state \in {"absent", "creating", "deleting"}
  \/ r.kind = "resize" /\ (g.state # "stopped" \/ g.pending \notin {0, r.target} \/ r.target < g.size)
Reject(h) ==
  /\ Waiting(h) /\ Rejects(First(h), guest[First(h).vm])
  /\ LET g == guest[First(h).vm]
     IN Reply(h, IF First(h).kind = "resize" /\ g.state # "absent" THEN "refused" ELSE "error", g)
  /\ UNCHANGED bounds

\* nothing left to do
Satisfied(r, g) ==
  \/ r.kind = "start" /\ g.state = "running" /\ g.pending = 0
  \/ r.kind = "stop" /\ g.state = "stopped" /\ ~g.error
  \/ r.kind = "delete" /\ g.state = "absent"
  \/ r.kind = "resize" /\ g.state = "stopped" /\ g.pending = 0 /\ g.size = r.target
Acknowledge(h) ==
  /\ Waiting(h) /\ Satisfied(First(h), guest[First(h).vm])
  /\ Reply(h, "ok", guest[First(h).vm]) /\ UNCHANGED bounds

Serves(h) ==
  Waiting(h) /\ ~Rejects(First(h), guest[First(h).vm]) /\ ~Satisfied(First(h), guest[First(h).vm])
Undertake(h) ==
  LET r == First(h)
      g == guest[r.vm] IN
  /\ Serves(h)
  /\ \/ r.kind \in {"create", "start"} /\ WorkOn(h, [g EXCEPT !.state = "creating"])
     \/ r.kind = "delete" /\ WorkOn(h, [g EXCEPT !.state = "deleting"])
     \/ r.kind = "resize" /\ WorkOn(h, [g EXCEPT !.pending = r.target, !.error = TRUE])
\* no room, a missing capability, a backup that forbids it
TurnDown(h) ==
  /\ Serves(h) /\ First(h).kind # "stop" /\ May(failures, MaxFailures)
  /\ Reply(h, IF First(h).kind = "resize" THEN "refused" ELSE "error", guest[First(h).vm])
  /\ UNCHANGED <<asked, crashes, elsewhere, looked>>

StopGuest(h) ==
  /\ Serves(h) /\ First(h).kind = "stop"
  /\ Reply(h, "ok", [guest[First(h).vm] EXCEPT !.state = "stopped", !.error = FALSE])
  /\ UNCHANGED bounds

Complete(h) ==
  LET r == First(h)
      g == guest[r.vm] IN
  /\ Working(h) /\ UNCHANGED bounds
  /\ \/ /\ r.kind \in {"create", "start"}
        /\ Reply(h, "ok", [g EXCEPT !.state = "running", !.error = FALSE])
     \/ r.kind = "delete" /\ Reply(h, "ok", [NoGuest EXCEPT !.served = g.served])
     \/ /\ r.kind = "resize"
        /\ Reply(h, "ok", [g EXCEPT !.size = r.target, !.pending = 0, !.error = FALSE])

\* the engine or the storage fails: the VM keeps what it has, with the error
Fail(h) ==
  LET r == First(h)
      g == guest[r.vm] IN
  /\ Working(h) \/ (Serves(h) /\ r.kind = "stop")
  /\ May(failures, MaxFailures) /\ UNCHANGED <<asked, crashes, elsewhere, looked>>
  /\ Reply(h, "error",
       [g EXCEPT !.error = TRUE, !.state = IF r.kind \in {"create", "start"} THEN "failed" ELSE @])

Serve(h) ==
  \/ Reject(h) \/ Acknowledge(h) \/ Undertake(h) \/ TurnDown(h) \/ StopGuest(h)
  \/ Complete(h) \/ Fail(h)

\* The agent's loop, which needs the mutex: interrupted work is failed, found running or
\* deleted again; a guest that ended by itself is seen stopped.
Reconcile(v, state) ==
  /\ ~Working(Home[v]) /\ guest[v].state = "creating" /\ state \in {"failed", "running"}
  /\ guest' = [guest EXCEPT ![v].state = state, ![v].error = state = "failed"]
  /\ UNCHANGED <<database, process, queue, history, bounds>>
ResumeDelete(v) ==
  /\ ~Working(Home[v]) /\ guest[v].state = "deleting"
  /\ guest' = [guest EXCEPT ![v] = [NoGuest EXCEPT !.served = guest[v].served]]
  /\ UNCHANGED <<database, process, queue, history, bounds>>
\* a guest that came up after its operation had failed is seen running
Revives(v) ==
  /\ ~Working(Home[v]) /\ guest[v].state = "failed"
  /\ guest' = [guest EXCEPT ![v].state = "running", ![v].error = FALSE]
  /\ UNCHANGED <<database, process, queue, history, bounds>>
GuestEnds(v) ==
  /\ ~Working(Home[v]) /\ guest[v].state = "running" /\ May(failures, MaxFailures)
  /\ guest' = [guest EXCEPT ![v].state = "stopped"]
  /\ UNCHANGED <<database, process, queue, history, asked, crashes, elsewhere, looked>>

(***************************************************************************)
(* Restarts, the clock and other environments.                             *)
(***************************************************************************)
CrashAgent(h) ==
  /\ queue[h] # <<>> /\ May(crashes, MaxCrashes)
  /\ queue' = [queue EXCEPT ![h] = <<>>]
  /\ answer' = IF \E i \in DOMAIN queue[h] : queue[h][i].waited
               THEN [NoAnswer EXCEPT !.is = "error"] ELSE answer
  /\ UNCHANGED <<database, op, reads, look, sweep, guest, history,
                 asked, failures, elsewhere, looked>>

CrashController ==
  /\ May(crashes, MaxCrashes)
  /\ op' = NoOp /\ answer' = NoAnswer /\ sweep' = FALSE
  /\ reads' = [r \in Readers |-> NoRead] /\ look' = NoLook
  /\ queue' = [h \in Hosts |-> Abandoned(queue[h])]
  /\ UNCHANGED <<database, guest, history, asked, failures, elsewhere, looked>>

Lapse ==
  /\ env.state # "none" /\ ~env.due /\ env' = [env EXCEPT !.due = TRUE]
  /\ UNCHANGED <<vms, hosts, online, process, agents, history, bounds>>

Elsewhere ==
  /\ May(elsewhere, MaxElsewhere) /\ Bump
  /\ UNCHANGED <<database, op, answer, look, sweep, agents, history,
                 asked, failures, crashes, looked>>

(***************************************************************************)
(* Specification.                                                          *)
(***************************************************************************)
Client ==
  \/ BeginCreate \/ BeginDelete \/ BeginStop \/ BeginStart
  \/ \E v \in Vms, t \in Sizes : BeginResize(v, t)
OperationStep ==
  \/ Reserve \/ Plan \/ Ask \/ SendsDone \/ Conclude
  \/ TakeCreated \/ TakeDeleted \/ TakeChanged \/ TakeResized
  \/ \E v \in Vms : Send(v) \/ SkipHost(v)
Read(r) == StartRead(r) \/ EndRead(r) \/ \E h \in Hosts : Fetch(r, h) \/ Apply(r, h)
AgentLoop(v) == Reconcile(v, "failed") \/ Reconcile(v, "running") \/ ResumeDelete(v)
Faults ==
  \/ Timeout \/ CrashController \/ Elsewhere
  \/ \E v \in Vms : SendFails(v) \/ GuestEnds(v) \/ Revives(v)
  \/ \E h \in Hosts : CrashAgent(h) \/ \E r \in Readers : FetchFails(r, h)

Next ==
  \/ Client \/ OperationStep \/ Sweep \/ BeginExpire \/ Lapse \/ Retain \/ Faults
  \/ \E r \in Readers : Read(r)
  \/ \E v \in Vms : Inspect(v) \/ AgentLoop(v)
  \/ \E h \in Hosts : Register(h) \/ Remove(h) \/ Detach(h) \/ Serve(h)

Spec == Init /\ [][Next]_vars
\* Spawned tasks run, the periodic loops come round, agents serve what they accepted, and a
\* refresh, which takes seconds, fits now and then between two sweeps, a minute apart.
Answers(r) == \E h \in Hosts : Current(r) /\ Fetch(r, h)
Lands(r) == \E h \in Hosts : Current(r) /\ Apply(r, h)
FairSpec ==
  /\ Spec /\ WF_vars(OperationStep) /\ WF_vars(Sweep) /\ WF_vars(BeginExpire) /\ WF_vars(Retain)
  /\ \A r \in Readers : WF_vars(Read(r))
  /\ \A r \in Loops : SF_vars(Answers(r)) /\ SF_vars(Lands(r))
  /\ \A h \in Hosts : WF_vars(Serve(h))
  /\ \A v \in Vms : WF_vars(AgentLoop(v))

(***************************************************************************)
(* Properties.                                                             *)
(***************************************************************************)
Steps == {"none", "plan", "reserve", "survey", "ask", "send", "wait", "refresh", "conclude"}
EnvType == [state: {"none", "creating", "active", "stopped", "failed", "deleting"}, due: BOOLEAN]
OpType == [kind: AllKinds \union {"none", "expire"}, step: Steps, vm: Vms \union {NoVm},
           target: Sizes, todo: SUBSET Vms, failed: BOOLEAN, saved: [Vms -> Row], up: SUBSET Hosts]
AnswerType == [is: {"none", "ok", "refused", "error"}, guest: Guest]
ReadType == [step: {"idle", "reading"}, current: BOOLEAN,
             left: SUBSET Hosts, got: [Hosts -> Snapshot]]
LookType == [vm: Vms \union {NoVm}, guest: Guest]

\* Every variable holds a value of its kind.
TypeOK ==
  /\ env \in EnvType /\ vms \in [Vms -> Row]
  /\ hosts \subseteq Hosts /\ online \subseteq hosts
  /\ op \in OpType /\ answer \in AnswerType
  /\ reads \in [Readers -> ReadType] /\ look \in LookType /\ sweep \in BOOLEAN
  /\ queue \in [Hosts -> Seq(Request)] /\ guest \in [Vms -> Guest]
  /\ used \subseteq Vms /\ orphans \subseteq used

\* Every VM an agent has, or has accepted to create, is tracked by the controller until the
\* agent confirmed its deletion or its host was detached, whoever crashed or timed out.
Ordered(h, v) == \E i \in DOMAIN queue[h] : queue[h][i].vm = v /\ queue[h][i].kind = "create"
VmsTracked ==
  \A v \in Vms : guest[v].state # "absent" \/ Ordered(Home[v], v) => v \in Tracked \union orphans

\* No observation made before an answer the controller has recorded replaces that answer.
ConfirmedKept == \A v \in Tracked : vms[v].fresh

\* The target of a resize that an agent has begun, or may yet carry out, stays on record.
Unborn(v) ==
  \E i \in DOMAIN queue[Home[v]] :
    LET r == queue[Home[v]][i] IN r.vm = v /\ r.kind = "create" /\ ~r.begun
Carries(r, v) ==
  /\ r.vm = v /\ r.kind = "resize" /\ r.target > guest[v].size
  /\ guest[v].state # "absent" \/ Unborn(v)
OnRecord(v, pending) ==
  /\ guest[v].pending # 0 => pending = guest[v].pending
  /\ \A i \in DOMAIN queue[Home[v]] :
       Carries(queue[Home[v]][i], v) => pending = queue[Home[v]][i].target
ResizeRecorded == \A v \in Tracked : OnRecord(v, vms[v].pending)

\* A deletion is never undone by an update of the environment's state.
DeletionStands ==
  [][env.state = "deleting" => env'.state \in {"deleting", "none"}]_vars

\* Expiry never deletes an environment whose own lifetime is not over, though its name
\* was on the list for an earlier one.
ExpiryRespectsLifetime ==
  [][op'.kind = "expire" /\ op.kind # "expire" => env.due \/ env.state = "deleting"]_vars

\* Once deletion has begun the environment goes, when hosts answer again.
DeletionCompletes == env.state = "deleting" ~> env.state = "none"

\* What the controller shows comes to agree with the agents.
Shown(v) == IF guest[v].state = "absent" THEN "failed" ELSE guest[v].state
InStep ==
  /\ \A v \in Tracked : vms[v].state = Shown(v)
  /\ env.state # "none" => env.state = Summary
ViewSettles == <>[]InStep

(***************************************************************************)
(* The inductive invariant behind VmsTracked.                              *)
(***************************************************************************)
Row0(v) == op.saved[v].state # "untracked"
Queued(v) == \E i \in DOMAIN queue[Home[v]] : queue[Home[v]][i].vm = v
Untouched(v) == guest[v].state = "absent" /\ ~Queued(v)
InHand(kind) ==
  IF kind = "delete" THEN "deleting" ELSE IF kind = "resize" THEN "stopped" ELSE "creating"

\* A creation is the first request an agent ever gets for its VM; only the request in hand has
\* begun; a caller that still waits is the operation, once, for that VM and kind.
QueueInv ==
  \A h \in Hosts : \A i \in DOMAIN queue[h] :
    LET r == queue[h][i] IN
    /\ Home[r.vm] = h
    /\ r.begun => i = 1 /\ guest[r.vm].state = InHand(r.kind)
    /\ r.kind = "create" => \A j \in DOMAIN queue[h] : j < i => queue[h][j].vm # r.vm
    /\ r.waited => /\ op.step = "wait" /\ answer.is = "none" /\ r.vm = op.vm /\ r.kind = RequestKind
                   /\ \A j \in DOMAIN queue[h] : queue[h][j].waited => j = i

\* Where the operation stands, and that it writes back no row it did not read.
StepInv ==
  /\ op.step # "none" => op.kind # "none"
  /\ op.step = "plan" => op.kind = "create"
  /\ op.step = "wait" => op.vm \in used
  /\ op.step # "wait" => answer.is = "none"
  /\ op.step \in {"survey", "ask"} => op.kind = "resize" /\ op.vm \in Vms
  /\ reads[Own].step = "reading" => op.step \in {"survey", "refresh"}
  /\ op.step = "reserve" => op.kind = "start" /\ \A v \in Vms : Row0(v) <=> v \in Tracked
  /\ op.kind = "resize" => \A v \in op.todo : Row0(v)
  /\ op.kind = "resize" /\ op.step = "wait" => Row0(op.vm)
  /\ look # NoLook => look.vm \in Vms /\ look.guest.state # "absent"

\* A VM whose creation was not sent yet is unknown to its agent; a confirmed deletion leaves
\* nothing behind that could bring the VM back.
TodoInv ==
  /\ op.todo \subseteq used
  /\ op.kind = "create" => \A v \in op.todo : Untouched(v) /\ v \in Tracked \union orphans
  /\ Tracked \subseteq used /\ \A v \in Vms \ used : Untouched(v)
  /\ op.step = "wait" /\ answer.is = "ok" =>
       IF Deletes THEN guest[op.vm].state = "absent" /\ ~Ordered(Home[op.vm], op.vm)
       ELSE op.kind \in {"create", "resize"} => answer.guest.state # "absent"

TrackInv == QueueInv /\ StepInv /\ TodoInv /\ VmsTracked

(***************************************************************************)
(* The inductive invariant behind ConfirmedKept and ResizeRecorded, for a  *)
(* controller that retains no inspected VM.                                *)
(***************************************************************************)
NoLooks == look = NoLook /\ looked = 0

\* Rows are not older than what their agents have done, and know of every unfinished resize.
RowInv ==
  \A v \in Tracked :
    vms[v].fresh /\ vms[v].confirmed <= guest[v].served /\ OnRecord(v, vms[v].pending)

\* A resize under way grows its VM; one request of a queue at most is waited for, and none
\* for its VM is behind it.
GuestInv ==
  /\ \A v \in Vms : /\ guest[v].state = "absent" => guest[v].pending = 0
                    /\ guest[v].pending # 0 => guest[v].size < guest[v].pending
  /\ \A h \in Hosts : \A i \in DOMAIN queue[h] :
       LET r == queue[h][i] IN
       /\ r.kind = "create" /\ ~r.begun => guest[r.vm].state = "absent"
       /\ r.kind = "resize" /\ r.begun => guest[r.vm].pending = r.target
       /\ r.waited => \A j \in DOMAIN queue[h] : j > i => queue[h][j].vm # r.vm

\* What a refresh that is still current has heard: not older than the row, no smaller resize
\* than the row knows, and nothing another such refresh contradicts.
Heard(r, v) == Current(r) /\ Touches(r) /\ reads[r].got[Home[v]].is = "up"
Told(r, v) == reads[r].got[Home[v]].guests[v]
ReadInv ==
  /\ \A r \in Readers : reads[r].step = "idle" => ~Current(r)
  /\ \A r \in Readers, v \in Vms : Heard(r, v) =>
       /\ v \in Tracked => /\ Told(r, v).served >= vms[v].confirmed
                           /\ Told(r, v).pending # 0 => vms[v].pending \in {0, Told(r, v).pending}
       /\ Told(r, v).state # "absent" =>
            ~Unborn(v) /\ (guest[v].state # "absent" => Told(r, v).size <= guest[v].size)
  /\ \A r, s \in Readers, v \in Tracked : Heard(r, v) /\ Heard(s, v) =>
       Told(r, v).pending = 0 \/ Told(s, v).pending \in {0, Told(r, v).pending}

\* What the operation was answered still holds when it takes the answer.
AnswerInv ==
  op.step = "wait" =>
    /\ op.vm \notin op.todo
    /\ answer.is \in {"ok", "refused"} => ~Queued(op.vm)
    /\ answer.is = "ok" => answer.guest.served <= guest[op.vm].served
    /\ answer.is = "ok" /\ op.kind \in {"create", "resize"} => OnRecord(op.vm, answer.guest.pending)
    /\ answer.is = "refused" /\ op.saved[op.vm].pending = 0 => OnRecord(op.vm, 0)

\* Rows the operation read may be written back.
Only(v, i) ==
  /\ guest[v].pending = 0
  /\ \A j \in DOMAIN queue[Home[v]] : Carries(queue[Home[v]][j], v) => j = i
Alone(v) ==
  \A i \in DOMAIN queue[Home[v]] :
    LET r == queue[Home[v]][i] IN r.waited /\ ~r.begun => Only(v, i)
SavedInv ==
  /\ op.step \in {"survey", "refresh"} => op.todo = {}
  /\ \A v \in Vms : Row0(v) => op.saved[v].fresh /\ op.saved[v].confirmed <= guest[v].served
  /\ op.kind \in {"start", "stop"} =>
       /\ \A v \in Vms : Row0(v) => OnRecord(v, op.saved[v].pending)
       /\ \A v \in op.todo : Row0(v)
       /\ op.step = "wait" => Row0(op.vm)
  /\ op.kind = "resize" =>
       /\ \A v \in op.todo : /\ vms[v].pending = op.target
                             /\ op.saved[v].pending = 0 => OnRecord(v, 0)
       /\ op.step = "wait" /\ op.saved[op.vm].pending = 0 => Alone(op.vm)

ViewInv == NoLooks /\ RowInv /\ GuestInv /\ ReadInv /\ AnswerInv /\ SavedInv
=============================================================================
