------------------------- MODULE EnvLifecycle_proofs -------------------------
(***************************************************************************)
(* Theorems about EnvLifecycle, for any hosts, VMs, sizes, refreshes and   *)
(* bounds.                                                                 *)
(***************************************************************************)
EXTENDS EnvLifecycle, SequenceTheorems, TLAPS

(***************************************************************************)
(* Constant records are of their kinds.                                    *)
(***************************************************************************)
LEMMA LeastType == Least \in Sizes /\ Sizes \subseteq Nat
BY FleetAssumption DEF Least

LEMMA NullGuests == NoGuest \in Guest /\ NoAnswer \in AnswerType
BY LeastType DEF NoGuest, Guest, States, NoAnswer, AnswerType

LEMMA NullRows == Planned \in Row /\ NoRow \in Row /\ NoRows \in [Vms -> Row]
BY LeastType DEF Planned, NoRow, NoRows, Row, States

LEMMA NullSnapshots == NoSnapshot \in Snapshot /\ NoLook \in LookType /\ NoRead \in ReadType
<1>1. NoSnapshot \in Snapshot
  BY NullGuests DEF NoSnapshot, Snapshot
<1> QED BY <1>1, NullGuests DEF NoRead, NoLook, LookType, ReadType

LEMMA NullOp == NoOp \in OpType
BY LeastType, NullRows DEF NoOp, OpType, AllKinds, Steps

LEMMA BumpType ==
  ASSUME TypeOK, Bump
  PROVE  /\ reads' \in [Readers -> ReadType]
         /\ \A r \in Readers : reads'[r].step = reads[r].step
BY DEF TypeOK, ReadType, Bump

LEMMA AbandonedType ==
  ASSUME NEW q \in Seq(Request)
  PROVE  /\ Abandoned(q) \in Seq(Request) /\ Len(Abandoned(q)) = Len(q)
         /\ DOMAIN Abandoned(q) = DOMAIN q
         /\ \A i \in DOMAIN q : Abandoned(q)[i] = [q[i] EXCEPT !.waited = FALSE]
<1>1. ASSUME NEW i \in 1..Len(q) PROVE [q[i] EXCEPT !.waited = FALSE] \in Request
  <2>1. q[i] \in Request
    OBVIOUS
  <2> QED BY <2>1 DEF Request
<1>2. Abandoned(q) = [i \in 1..Len(q) |-> [q[i] EXCEPT !.waited = FALSE]]
  BY DEF Abandoned
<1> QED BY <1>1, <1>2

LEMMA MergedType ==
  ASSUME NEW known \in Row, NEW g \in Guest
  PROVE  /\ g.state # "absent" => Merged(known, g) \in Row
         /\ Missing(known, g) \in Row /\ Observed(known, g) \in Row
         /\ g.state # "absent" => Merged(known, g).state # "untracked" /\ Confirmed(g) \in Row
         /\ Observed(known, g).state # "untracked" /\ Confirmed(g).state # "untracked"
<1>1. g.state # "absent" => Merged(known, g) \in Row
  BY DEF Merged, Row, Guest, States
<1>2. Missing(known, g) \in Row
  <2>1. \A b \in BOOLEAN :
          [known EXCEPT !.state = "failed", !.error = TRUE, !.fresh = b] \in Row
    BY DEF Row, States
  <2>2. (g.served >= known.confirmed) \in BOOLEAN
    BY DEF Row, Guest
  <2> QED BY <2>1, <2>2, Zenon DEF Missing
<1>3. g.state # "absent" => Merged(known, g).state # "untracked" /\ Confirmed(g) \in Row
  BY DEF Merged, Row, Guest, States, Confirmed
<1>4. Missing(known, g).state # "untracked" /\ Confirmed(g).state # "untracked"
  BY DEF Missing, Row, Guest, States, Confirmed
<1> QED BY <1>1, <1>2, <1>3, <1>4 DEF Observed

LEMMA UpdatedType ==
  ASSUME env \in EnvType
  PROVE  Updated \in EnvType
<1>1. Summary \in {"creating", "active", "stopped", "failed"}
  BY Zenon DEF Summary
<1> QED BY <1>1 DEF Updated, EnvType

(***************************************************************************)
(* Type correctness.                                                       *)
(***************************************************************************)
LEMMA TypeInit == Init => TypeOK
<1> SUFFICES ASSUME Init PROVE TypeOK
  OBVIOUS
<1>1. reads \in [Readers -> ReadType]
  BY NullSnapshots DEF Init
<1>2. queue \in [Hosts -> Seq(Request)]
  BY DEF Init
<1>3. guest \in [Vms -> Guest]
  BY NullGuests DEF Init
<1> QED BY <1>1, <1>2, <1>3, NullGuests, NullRows, NullSnapshots, NullOp DEF Init, TypeOK, EnvType

LEMMA TypeBegins ==
  ASSUME TypeOK,
         \/ BeginCreate \/ BeginDelete \/ BeginStop \/ BeginStart \/ Reserve
         \/ \E v \in Vms, t \in Sizes : BeginResize(v, t)
         \/ Sweep \/ BeginExpire
  PROVE  TypeOK'
<1>1. Tracked \subseteq Vms
  BY DEF Tracked
<1> USE <1>1, NullOp, BumpType
        DEF TypeOK, OpType, EnvType, AllKinds, Steps, database, agents, history, bounds, Begin
<1>2. ASSUME BeginCreate PROVE TypeOK'
  BY <1>2 DEF BeginCreate
<1>3. ASSUME BeginDelete PROVE TypeOK'
  BY <1>3 DEF BeginDelete, StartsDeleting
<1>4. ASSUME BeginStop PROVE TypeOK'
  BY <1>4 DEF BeginStop
<1>5. ASSUME BeginStart PROVE TypeOK'
  BY <1>5 DEF BeginStart
<1>6. ASSUME Reserve PROVE TypeOK'
  <2>1. vms' \in [Vms -> Row]
    <3>1. \A r \in Row : [r EXCEPT !.state = "creating"] \in Row
      BY DEF Row, States
    <3> QED BY <1>6, <3>1 DEF Reserve
  <2> QED BY <1>6, <2>1 DEF Reserve
<1>7. ASSUME NEW v \in Vms, NEW t \in Sizes, BeginResize(v, t) PROVE TypeOK'
  BY <1>7 DEF BeginResize
<1>8. ASSUME Sweep PROVE TypeOK'
  BY <1>8 DEF Sweep
<1>9. ASSUME BeginExpire PROVE TypeOK'
  <2>1. ASSUME StartsDeleting("expire") PROVE env' \in EnvType /\ op' \in OpType
    BY <2>1 DEF StartsDeleting
  <2>2. env' \in EnvType /\ op' \in OpType /\ reads' \in [Readers -> ReadType]
    BY <1>9, <2>1 DEF BeginExpire
  <2> QED BY <1>9, <2>2 DEF BeginExpire
<1> QED BY <1>2, <1>3, <1>4, <1>5, <1>6, <1>7, <1>8, <1>9

LEMMA DropType == ASSUME TypeOK, Drop PROVE op' \in OpType /\ reads' \in [Readers -> ReadType]
BY NullOp, BumpType DEF Drop

LEMMA WithoutType == ASSUME TypeOK, NEW S PROVE Without(S) \in [Vms -> Row]
BY NullRows DEF TypeOK, Without

LEMMA TypePlanned ==
  ASSUME TypeOK, Plan \/ Ask
  PROVE  TypeOK'
<1> USE DEF agents, history
<1>1. ASSUME Plan PROVE TypeOK'
  <2>1. CASE Drop /\ UNCHANGED <<env, vms, used>>
    BY <1>1, <2>1, DropType DEF Plan, TypeOK
  <2>2. ASSUME NEW new \in Placements, Bump,
               env' = [state |-> "creating", due |-> FALSE],
               vms' = [v \in Vms |-> IF v \in new THEN Planned ELSE vms[v]],
               used' = used \union new,
               op' = [op EXCEPT !.step = "send", !.todo = new]
        PROVE  TypeOK'
    <3>1. new \subseteq Vms
      BY DEF Placements
    <3> QED BY <1>1, <2>2, <3>1, BumpType, NullRows DEF Plan, TypeOK, EnvType, OpType, Steps
  <2> QED BY <1>1, <2>1, <2>2, Zenon DEF Plan
<1>2. ASSUME Ask PROVE TypeOK'
  <2>1. CASE Drop /\ UNCHANGED vms
    BY <1>2, <2>1, DropType DEF Ask, TypeOK
  <2>2. ASSUME op.vm \in Vms, Bump,
               vms' = [vms EXCEPT ![op.vm] = [@ EXCEPT !.pending = op.target, !.error = TRUE]],
               op' = [op EXCEPT !.step = "send", !.todo = {op.vm}, !.saved = vms]
        PROVE  TypeOK'
    <3>1. vms[op.vm] \in Row /\ op.target \in Sizes
      BY <2>2 DEF TypeOK, OpType
    <3>2. [vms[op.vm] EXCEPT !.pending = op.target, !.error = TRUE] \in Row
      BY <3>1 DEF Row
    <3>3. op' \in OpType
      BY <2>2 DEF TypeOK, OpType, Steps
    <3> QED BY <1>2, <2>2, <3>2, <3>3, BumpType DEF Ask, TypeOK
  <2> QED BY <1>2, <2>1, <2>2, Zenon DEF Ask, MayResize, Tracked
<1> QED BY <1>1, <1>2

LEMMA TypeSends ==
  ASSUME TypeOK, TrackInv,
         \/ \E v \in Vms : Send(v) \/ SkipHost(v) \/ SendFails(v)
         \/ SendsDone \/ Timeout \/ Conclude
  PROVE  TypeOK'
<1> USE DEF TypeOK, OpType, AnswerType, Steps, AllKinds, database, agents, history
<1>1. ASSUME NEW v \in Vms, Send(v) PROVE TypeOK'
  <2>1. RequestKind \in AllKinds
    BY <1>1 DEF Send, TrackInv, StepInv, RequestKind
  <2> DEFINE r == [kind |-> RequestKind, vm |-> v, target |-> op.target,
                   waited |-> TRUE, begun |-> FALSE]
  <2>2. r \in Request /\ Home[v] \in Hosts
    BY <2>1, FleetAssumption DEF Request
  <2>3. queue' \in [Hosts -> Seq(Request)]
    <3>1. Append(queue[Home[v]], r) \in Seq(Request)
      BY <2>2
    <3>2. queue' = [queue EXCEPT ![Home[v]] = Append(queue[Home[v]], r)]
      BY <1>1, Zenon DEF Send
    <3> HIDE DEF r
    <3> QED BY <2>2, <3>1, <3>2
  <2> QED BY <1>1, <2>3 DEF Send
<1>2. ASSUME NEW v \in Vms, SkipHost(v) PROVE TypeOK'
  BY <1>2 DEF SkipHost
<1>3. ASSUME NEW v \in Vms, SendFails(v) PROVE TypeOK'
  BY <1>3, NullGuests DEF SendFails
<1>4. ASSUME SendsDone PROVE TypeOK'
  BY <1>4 DEF SendsDone, After
<1>5. ASSUME Timeout PROVE TypeOK'
  <2>1. queue' \in [Hosts -> Seq(Request)]
    BY <1>5, AbandonedType DEF Timeout
  <2> QED BY <1>5, <2>1, NullGuests DEF Timeout
<1>6. ASSUME Conclude PROVE TypeOK'
  <2>1. env' \in EnvType
    <3>1. Updated \in EnvType
      BY UpdatedType
    <3> QED BY <1>6, <3>1 DEF Conclude, Concluded, EnvType
  <2> QED BY <1>6, <2>1, DropType DEF Conclude
<1> QED BY <1>1, <1>2, <1>3, <1>4, <1>5, <1>6

LEMMA TypeTakes ==
  ASSUME TypeOK, TrackInv, TakeCreated \/ TakeDeleted \/ TakeChanged \/ TakeResized
  PROVE  TypeOK'
<1>1. op.vm \in Vms /\ op' \in OpType /\ answer' \in AnswerType /\ answer.is # "none"
      /\ UNCHANGED <<env, hosts, online, reads, look, sweep, agents, history>>
  <2>1. op.step = "wait" /\ answer.is # "none" /\ \E f \in BOOLEAN : Continue(f)
    BY Zenon DEF TakeCreated, TakeDeleted, TakeChanged, TakeResized, Answered, Succeeded, Deleted
  <2>2. op.vm \in Vms
    BY <2>1 DEF TrackInv, StepInv, TypeOK
  <2> QED BY <2>1, <2>2, NullGuests DEF Continue, TypeOK, OpType, Steps
<1>2. vms' \in [Vms -> Row]
  <2>1. ASSUME TakeCreated PROVE vms' \in [Vms -> Row]
    <3>1. Succeeded => Confirmed(answer.guest) \in Row
      BY <2>1, MergedType, NullRows
         DEF TakeCreated, Answered, Succeeded, TrackInv, TodoInv, Deletes, TypeOK, AnswerType
    <3>2. \A r \in Row : [r EXCEPT !.error = TRUE] \in Row
      BY DEF Row
    <3> QED BY <1>1, <2>1, <3>1, <3>2 DEF TakeCreated, TypeOK
  <2>2. ASSUME TakeDeleted PROVE vms' \in [Vms -> Row]
    BY <2>2, WithoutType DEF TakeDeleted, TypeOK
  <2>3. ASSUME TakeChanged PROVE vms' \in [Vms -> Row]
    <3>1. op.saved[op.vm] \in Row /\ answer.guest.served \in Nat
      BY <1>1 DEF TypeOK, OpType, AnswerType, Guest
    <3>2. \A s \in {"running", "stopped"} :
            [op.saved[op.vm] EXCEPT !.state = s, !.error = FALSE,
               !.confirmed = answer.guest.served, !.fresh = TRUE] \in Row
      BY <3>1 DEF Row, States
    <3> QED BY <1>1, <2>3, <3>2 DEF TakeChanged, TypeOK
  <2>4. ASSUME TakeResized PROVE vms' \in [Vms -> Row]
    <3>1. Succeeded => Confirmed(answer.guest) \in Row
      BY <2>4, MergedType, NullRows
         DEF TakeResized, Answered, Succeeded, TrackInv, TodoInv, Deletes, TypeOK, AnswerType
    <3> QED BY <1>1, <2>4, <3>1 DEF TakeResized, TypeOK, OpType
  <2> QED BY <2>1, <2>2, <2>3, <2>4
<1> QED BY <1>1, <1>2 DEF TypeOK, agents, history

LEMMA SnapshotType ==
  ASSUME TypeOK, NEW r \in Readers, NEW h \in Hosts, NEW s \in Snapshot
  PROVE  /\ [reads EXCEPT ![r].got[h] = s] \in [Readers -> ReadType]
         /\ [reads EXCEPT ![r].left = @ \ {h}, ![r].got[h] = s] \in [Readers -> ReadType]
<1>1. reads[r] \in ReadType
  BY DEF TypeOK
<1>2. [reads[r].got EXCEPT ![h] = s] \in [Hosts -> Snapshot]
  BY <1>1 DEF ReadType
<1>3. [reads[r] EXCEPT !.got[h] = s] \in ReadType
  BY <1>1, <1>2 DEF ReadType
<1>4. [reads[r] EXCEPT !.left = @ \ {h}, !.got[h] = s] \in ReadType
  BY <1>1, <1>2 DEF ReadType
<1> QED BY <1>3, <1>4 DEF TypeOK

LEMMA TypeReads ==
  ASSUME TypeOK, NEW r \in Readers,
         \/ StartRead(r) \/ EndRead(r)
         \/ \E h \in Hosts : Fetch(r, h) \/ FetchFails(r, h) \/ Apply(r, h)
  PROVE  TypeOK'
<1> USE DEF database, agents, history
<1>1. ASSUME StartRead(r) PROVE TypeOK'
  <2>1. [NoRead EXCEPT !.step = "reading", !.current = TRUE,
           !.left = IF r = Own THEN Hosting ELSE hosts] \in ReadType
    BY NullSnapshots DEF ReadType, Hosting, TypeOK
  <2> QED BY <1>1, <2>1, Zenon DEF StartRead, TypeOK
<1>2. ASSUME EndRead(r) PROVE TypeOK'
  <2>1. reads' \in [Readers -> ReadType]
    BY <1>2, NullSnapshots DEF EndRead, TypeOK
  <2>2. env' \in EnvType
    BY <1>2, UpdatedType DEF EndRead, TypeOK
  <2>3. op' \in OpType
    BY <1>2 DEF EndRead, TypeOK, OpType, Steps
  <2> QED BY <1>2, <2>1, <2>2, <2>3 DEF EndRead, TypeOK
<1>3. ASSUME NEW h \in Hosts, Fetch(r, h) PROVE TypeOK'
  <2>1. Inventory(h) \in [Vms -> Guest]
    BY NullGuests DEF Inventory, TypeOK
  <2>2. [is |-> "up", guests |-> Inventory(h)] \in Snapshot
    BY <2>1 DEF Snapshot
  <2> QED BY <1>3, <2>2, SnapshotType DEF Fetch, Got, TypeOK
<1>4. ASSUME NEW h \in Hosts, FetchFails(r, h) PROVE TypeOK'
  <2>1. [NoSnapshot EXCEPT !.is = "down"] \in Snapshot
    BY NullSnapshots DEF Snapshot
  <2> QED BY <1>4, <2>1, SnapshotType DEF FetchFails, Got, TypeOK
<1>5. ASSUME NEW h \in Hosts, Apply(r, h) PROVE TypeOK'
  <2>1. reads[r].got[h] \in Snapshot
    BY DEF TypeOK, ReadType
  <2>2. reads' \in [Readers -> ReadType]
    BY <1>5, NullSnapshots, SnapshotType DEF Apply
  <2>3. vms' \in [Vms -> Row] /\ online' \subseteq hosts
    <3>1. \A v \in Vms : Observed(vms[v], reads[r].got[h].guests[v]) \in Row
      <4>1. \A v \in Vms : vms[v] \in Row /\ reads[r].got[h].guests[v] \in Guest
        BY <2>1 DEF TypeOK, Snapshot
      <4> QED BY <4>1, MergedType
    <3>2. [v \in Vms |-> IF Touches(r) /\ v \in TrackedOn(h)
                         THEN Observed(vms[v], reads[r].got[h].guests[v]) ELSE vms[v]]
            \in [Vms -> Row]
      BY <3>1 DEF TypeOK
    <3>3. \/ vms' = vms /\ online' \in {online, online \ {h}}
          \/ /\ h \in hosts /\ online' = online \union {h}
             /\ vms' = [v \in Vms |-> IF Touches(r) /\ v \in TrackedOn(h)
                          THEN Observed(vms[v], reads[r].got[h].guests[v]) ELSE vms[v]]
      BY <1>5, Zenon DEF Apply
    <3> QED BY <3>2, <3>3 DEF TypeOK
  <2> QED BY <1>5, <2>2, <2>3 DEF Apply, TypeOK
<1> QED BY <1>1, <1>2, <1>3, <1>4, <1>5

LEMMA TypeHosts ==
  ASSUME TypeOK, TrackInv,
         \/ Retain \/ \E v \in Vms : Inspect(v)
         \/ \E h \in Hosts : Register(h) \/ Remove(h) \/ Detach(h)
  PROVE  TypeOK'
<1> USE DEF database, agents, history, process
<1>1. ASSUME Retain PROVE TypeOK'
  <2>1. CASE look.vm \notin Tracked
    BY <1>1, <2>1, NullSnapshots DEF Retain, TypeOK
  <2>2. CASE look.vm \in Tracked
    <3>1. look.vm \in Vms /\ look.guest \in Guest /\ look.guest.state # "absent"
      BY <1>1 DEF Retain, TrackInv, StepInv, TypeOK, LookType
    <3>2. Merged(vms[look.vm], look.guest) \in Row
      BY <3>1, MergedType DEF TypeOK
    <3> QED BY <1>1, <2>2, <3>1, <3>2, NullSnapshots, BumpType DEF Retain, TypeOK
  <2> QED BY <2>1, <2>2
<1>2. ASSUME NEW v \in Vms, Inspect(v) PROVE TypeOK'
  BY <1>2 DEF Inspect, TypeOK, LookType
<1>3. ASSUME NEW h \in Hosts, Register(h) \/ Remove(h) PROVE TypeOK'
  BY <1>3 DEF Register, Remove, TypeOK
<1>4. ASSUME NEW h \in Hosts, Detach(h) PROVE TypeOK'
  <2>1. TrackedOn(h) \subseteq used
    BY DEF TrackedOn, TrackInv, TodoInv
  <2>2. env' \in EnvType
    BY <1>4 DEF Detach, TypeOK, EnvType
  <2> QED BY <1>4, <2>1, <2>2, WithoutType, BumpType DEF Detach, TypeOK
<1> QED BY <1>1, <1>2, <1>3, <1>4

LEMMA FirstType ==
  ASSUME TypeOK, NEW h \in Hosts, queue[h] # <<>>
  PROVE  /\ First(h) \in Request /\ First(h) = queue[h][1] /\ guest[First(h).vm] \in Guest
         /\ First(h).vm \in Vms
<1>1. queue[h] \in Seq(Request)
  BY DEF TypeOK
<1>2. First(h) \in Request /\ First(h) = queue[h][1]
  BY <1>1 DEF First
<1> QED BY <1>2 DEF Request, TypeOK

LEMMA ReplyType ==
  ASSUME TypeOK, NEW h \in Hosts, queue[h] # <<>>,
         NEW is \in {"ok", "refused", "error"}, NEW g \in Guest, Reply(h, is, g)
  PROVE  TypeOK'
<1> DEFINE done == [g EXCEPT !.served = @ + 1]
<1>1. done \in Guest
  BY DEF Guest
<1>2. Tail(queue[h]) \in Seq(Request)
  BY DEF TypeOK
<1>3. /\ guest' = [guest EXCEPT ![First(h).vm] = done]
      /\ queue' = [queue EXCEPT ![h] = Tail(queue[h])]
      /\ answer' = IF First(h).waited THEN [is |-> is, guest |-> done] ELSE answer
      /\ UNCHANGED <<database, op, reads, look, sweep, history>>
  BY Zenon DEF Reply
<1> HIDE DEF done
<1> QED BY <1>1, <1>2, <1>3 DEF TypeOK, AnswerType, database, history

LEMMA WorkOnType ==
  ASSUME TypeOK, NEW h \in Hosts, queue[h] # <<>>, NEW g \in Guest, WorkOn(h, g)
  PROVE  TypeOK'
<1> DEFINE q == [queue[h] EXCEPT ![1].begun = TRUE]
<1>1. q \in Seq(Request) /\ queue' = [queue EXCEPT ![h] = q]
  <2>1. [queue[h][1] EXCEPT !.begun = TRUE] \in Request
    BY FirstType DEF Request
  <2> QED BY <2>1 DEF TypeOK, WorkOn
<1> HIDE DEF q
<1> QED BY <1>1 DEF TypeOK, WorkOn, database, process, history

LEMMA TypeAgents ==
  ASSUME TypeOK, NEW h \in Hosts, Serve(h)
  PROVE  TypeOK'
<1>1. queue[h] # <<>>
  BY Zenon DEF Serve, Reject, Acknowledge, Undertake, TurnDown, StopGuest, Complete, Fail,
               Serves, Waiting, Working
<1> DEFINE r == First(h)
           g == guest[r.vm]
<1>2. r \in Request /\ g \in Guest
  BY <1>1, FirstType
<1> HIDE DEF r, g
<1>3. ASSUME NEW is \in {"ok", "refused", "error"}, NEW new \in Guest, Reply(h, is, new)
      PROVE  TypeOK'
  BY <1>1, <1>3, ReplyType
<1>4. ASSUME NEW new \in Guest, WorkOn(h, new) PROVE TypeOK'
  BY <1>1, <1>4, WorkOnType
<1>5. ASSUME Undertake(h) PROVE TypeOK'
  <2>1. /\ [g EXCEPT !.state = "creating"] \in Guest
        /\ [g EXCEPT !.state = "deleting"] \in Guest
        /\ [g EXCEPT !.pending = r.target, !.error = TRUE] \in Guest
    BY <1>2 DEF Guest, States, Request
  <2> QED BY <1>5, <1>4, <2>1, Zenon DEF Undertake, r, g
<1>6. ASSUME Reject(h) \/ Acknowledge(h) \/ TurnDown(h) PROVE TypeOK'
  BY <1>2, <1>3, <1>6, Zenon DEF Reject, Acknowledge, TurnDown, r, g
<1>7. ASSUME StopGuest(h) PROVE TypeOK'
  <2>1. [g EXCEPT !.state = "stopped", !.error = FALSE] \in Guest
    BY <1>2 DEF Guest, States
  <2> QED BY <1>7, <1>3, <2>1, Zenon DEF StopGuest, r, g
<1>8. ASSUME Complete(h) PROVE TypeOK'
  <2>1. /\ [g EXCEPT !.state = "running", !.error = FALSE] \in Guest
        /\ [NoGuest EXCEPT !.served = g.served] \in Guest
        /\ [g EXCEPT !.size = r.target, !.pending = 0, !.error = FALSE] \in Guest
    BY <1>2, NullGuests DEF Guest, States, Request
  <2> QED BY <1>8, <1>3, <2>1, Zenon DEF Complete, r, g
<1>9. ASSUME Fail(h) PROVE TypeOK'
  <2>1. [g EXCEPT !.error = TRUE,
           !.state = IF r.kind \in {"create", "start"} THEN "failed" ELSE @] \in Guest
    BY <1>2 DEF Guest, States
  <2> QED BY <1>9, <1>3, <2>1, Zenon DEF Fail, r, g
<1> QED BY <1>5, <1>6, <1>7, <1>8, <1>9, Zenon DEF Serve

LEMMA TypeRest ==
  ASSUME TypeOK,
         \/ \E v \in Vms : AgentLoop(v) \/ Revives(v) \/ GuestEnds(v)
         \/ \E h \in Hosts : CrashAgent(h)
         \/ CrashController \/ Lapse \/ Elsewhere
  PROVE  TypeOK'
<1> USE DEF database, agents, history, process
<1>1. ASSUME NEW v \in Vms, AgentLoop(v) \/ Revives(v) \/ GuestEnds(v) PROVE TypeOK'
  <2>1. guest[v] \in Guest
    BY DEF TypeOK
  <2>2. /\ \A s \in States, b \in BOOLEAN : [guest[v] EXCEPT !.state = s, !.error = b] \in Guest
        /\ \A s \in States : [guest[v] EXCEPT !.state = s] \in Guest
        /\ [NoGuest EXCEPT !.served = guest[v].served] \in Guest
    BY <2>1, NullGuests DEF Guest
  <2>3. guest' \in [Vms -> Guest]
    BY <1>1, <2>2 DEF AgentLoop, Reconcile, ResumeDelete, Revives, GuestEnds, States, TypeOK
  <2> QED BY <1>1, <2>3
          DEF AgentLoop, Reconcile, ResumeDelete, Revives, GuestEnds, TypeOK
<1>2. ASSUME NEW h \in Hosts, CrashAgent(h) PROVE TypeOK'
  <2>1. answer' \in AnswerType
    BY <1>2, NullGuests DEF CrashAgent, TypeOK, AnswerType
  <2>2. queue' \in [Hosts -> Seq(Request)]
    BY <1>2 DEF CrashAgent, TypeOK
  <2> QED BY <1>2, <2>1, <2>2 DEF CrashAgent, TypeOK
<1>3. ASSUME CrashController PROVE TypeOK'
  <2>1. queue' \in [Hosts -> Seq(Request)]
    BY <1>3, AbandonedType DEF CrashController, TypeOK
  <2> QED BY <1>3, <2>1, NullOp, NullGuests, NullSnapshots DEF CrashController, TypeOK
<1>4. ASSUME Lapse PROVE TypeOK'
  BY <1>4 DEF Lapse, TypeOK, EnvType
<1>5. ASSUME Elsewhere PROVE TypeOK'
  BY <1>5, BumpType DEF Elsewhere, TypeOK
<1> QED BY <1>1, <1>2, <1>3, <1>4, <1>5

LEMMA TypeStep ==
  ASSUME TypeOK, TrackInv, [Next]_vars
  PROVE  TypeOK'
<1>1. CASE UNCHANGED vars
  BY <1>1 DEF TypeOK, vars, database, process, agents, history
<1>2. CASE Next
  BY <1>2, TypeBegins, TypePlanned, TypeSends, TypeTakes, TypeReads, TypeHosts, TypeAgents,
     TypeRest, Zenon DEF Next, Client, OperationStep, Faults, Read
<1> QED BY <1>1, <1>2

(***************************************************************************)
(* Tracking.  Most actions leave the queues and the guests alone.          *)
(***************************************************************************)
LEMMA TrackInit == Init => TrackInv
<1> SUFFICES ASSUME Init PROVE TrackInv
  OBVIOUS
<1>1. op.step = "none" /\ op.kind = "none" /\ op.todo = {} /\ answer.is = "none" /\ Tracked = {}
  BY DEF Init, NoOp, NoAnswer, NoRows, NoRow, Planned, Tracked
<1>2. \A v \in Vms : guest[v].state = "absent" /\ ~Queued(v) /\ ~Ordered(Home[v], v)
  BY FleetAssumption DEF Init, NoGuest, Queued, Ordered
<1>3. QueueInv
  BY DEF Init, QueueInv
<1>4. reads[Own].step = "idle"
  BY DEF Init, NoRead, Readers
<1> QED BY <1>1, <1>2, <1>3, <1>4 DEF Init, TrackInv, StepInv, TodoInv, VmsTracked, Untouched

LEMMA FrameTracks ==
  ASSUME TypeOK, TrackInv, UNCHANGED <<op, answer, queue, guest, used, orphans>>,
         Tracked' = Tracked, reads'[Own].step = reads[Own].step, look' = look \/ look' = NoLook
  PROVE  TrackInv'
<1>1. QueueInv'
  BY DEF TrackInv, QueueInv, RequestKind
<1>2. StepInv'
  BY DEF TrackInv, StepInv, Row0
<1>3. TodoInv'
  BY DEF TrackInv, TodoInv, Untouched, Queued, Ordered, Deletes
<1>4. VmsTracked'
  BY DEF TrackInv, VmsTracked, Ordered
<1> QED BY <1>1, <1>2, <1>3, <1>4 DEF TrackInv

LEMMA NobodyWaits ==
  ASSUME TrackInv, op.step # "wait" \/ answer.is # "none"
  PROVE  \A h \in Hosts : \A i \in DOMAIN queue[h] : ~queue[h][i].waited
BY DEF TrackInv, QueueInv

LEMMA QuietQueue ==
  ASSUME TrackInv, op.step # "wait" \/ answer.is # "none", UNCHANGED <<queue, guest>>
  PROVE  QueueInv'
BY NobodyWaits DEF TrackInv, QueueInv

\* A new operation, or the end of one: nobody waits, and nothing is left to do.
LEMMA QuietTracks ==
  ASSUME TypeOK, TrackInv, UNCHANGED <<queue, guest, answer, used, orphans, look>>,
         op.step # "wait", op'.step # "wait", op'.step # "none" => op'.kind # "none",
         op'.step = "plan" => op'.kind = "create", op'.step # "reserve",
         op'.step \in {"survey", "ask"} => op'.kind = "resize" /\ op'.vm \in Vms,
         reads'[Own].step = "reading" => op'.step \in {"survey", "refresh"},
         Tracked' = Tracked, op'.todo = {}
  PROVE  TrackInv'
<1>1. QueueInv'
  BY QuietQueue
<1>2. StepInv'
  BY DEF TrackInv, StepInv
<1>3. TodoInv' /\ VmsTracked'
  BY DEF TrackInv, TodoInv, VmsTracked, Untouched, Queued, Ordered
<1> QED BY <1>1, <1>2, <1>3 DEF TrackInv

LEMMA BumpKeeps ==
  ASSUME TypeOK, Bump
  PROVE  reads'[Own].step = reads[Own].step
BY BumpType DEF Readers

\* a new row of a VM that had one keeps it tracked
LEMMA TrackedKept ==
  ASSUME TypeOK, vms' \in [Vms -> Row],
         \A v \in Vms : vms'[v].state = "untracked" <=> vms[v].state = "untracked"
  PROVE  Tracked' = Tracked
BY DEF Tracked

LEMMA BeginsTrack ==
  ASSUME TypeOK, TypeOK', TrackInv,
         \/ BeginCreate \/ BeginDelete \/ BeginStop \/ BeginStart
         \/ \E v \in Vms, t \in Sizes : BeginResize(v, t)
         \/ Sweep \/ BeginExpire
  PROVE  TrackInv'
<1> USE DEF database, agents, history, process
<1>1. ASSUME ~Busy PROVE op.step \notin {"wait", "survey", "refresh"} /\ reads[Own].step # "reading"
  BY <1>1 DEF Busy, TrackInv, StepInv
<1>2. Tracked \subseteq used
  BY DEF TrackInv, TodoInv
<1>3. ASSUME BeginCreate PROVE TrackInv'
  BY <1>1, <1>3, BumpKeeps, QuietTracks DEF BeginCreate, Begin, NoOp, Tracked
<1>4. ASSUME NEW v \in Vms, NEW t \in Sizes, BeginResize(v, t) PROVE TrackInv'
  BY <1>1, <1>4, BumpKeeps, QuietTracks DEF BeginResize, Begin, NoOp, Tracked
<1>5. ASSUME UNCHANGED <<queue, guest, answer, used, orphans, look, vms>>, ~Busy, Bump,
             \/ op'.step = "send" /\ op'.kind \in {"delete", "expire", "stop"} /\ op'.todo = Tracked
             \/ op'.step = "reserve" /\ op'.kind = "start" /\ op'.todo = {} /\ op'.saved = vms
      PROVE  TrackInv'
  <2>1. QueueInv' /\ Tracked' = Tracked
    BY <1>1, <1>5, QuietQueue DEF Tracked
  <2>2. StepInv'
    BY <1>1, <1>5, <2>1, BumpKeeps DEF TrackInv, StepInv, Row0, Tracked
  <2>3. TodoInv' /\ VmsTracked'
    BY <1>1, <1>2, <1>5, <2>1 DEF TrackInv, TodoInv, VmsTracked, Untouched, Queued, Ordered
  <2> QED BY <2>1, <2>2, <2>3 DEF TrackInv
<1>6. ASSUME BeginDelete PROVE TrackInv'
  BY <1>5, <1>6 DEF BeginDelete, Begin, StartsDeleting, NoOp
<1>7. ASSUME BeginStop PROVE TrackInv'
  BY <1>5, <1>7 DEF BeginStop, Begin, NoOp
<1>8. ASSUME BeginStart PROVE TrackInv'
  BY <1>5, <1>8 DEF BeginStart, Begin, NoOp
<1>9. ASSUME Sweep PROVE TrackInv'
  BY <1>9, FrameTracks DEF Sweep, Tracked
<1>10. ASSUME BeginExpire PROVE TrackInv'
  <2>1. CASE UNCHANGED <<env, op>> /\ (UNCHANGED reads \/ Bump)
    BY <1>10, <2>1, FrameTracks, BumpKeeps DEF BeginExpire, Tracked
  <2>2. CASE ~Busy /\ Bump /\ StartsDeleting("expire")
    BY <1>5, <1>10, <2>2 DEF BeginExpire, StartsDeleting, NoOp
  <2> QED BY <1>10, <2>1, <2>2 DEF BeginExpire
<1> QED BY <1>3, <1>4, <1>6, <1>7, <1>8, <1>9, <1>10

LEMMA PlansTrack ==
  ASSUME TypeOK, TypeOK', TrackInv, Plan \/ Ask \/ Reserve \/ Conclude
  PROVE  TrackInv'
<1> USE DEF agents, history
<1>1. op.step \in {"plan", "ask", "reserve", "conclude"}
  BY DEF Plan, Ask, Reserve, Conclude
<1>2. op.step \notin {"wait", "survey", "refresh"} /\ reads[Own].step # "reading"
  BY <1>1 DEF TrackInv, StepInv
<1>3. ASSUME Drop, UNCHANGED <<vms, used, queue, guest, answer, orphans, look>> PROVE TrackInv'
  BY <1>2, <1>3, BumpKeeps, QuietTracks DEF Drop, NoOp, Tracked
<1>4. ASSUME NEW new \in Placements, op.step = "plan", Bump,
             vms' = [v \in Vms |-> IF v \in new THEN Planned ELSE vms[v]],
             used' = used \union new,
             op' = [op EXCEPT !.step = "send", !.todo = new],
             UNCHANGED <<queue, guest, answer, orphans, look>>
      PROVE  TrackInv'
  <2>1. new \subseteq Vms \ used
    BY DEF Placements
  <2>2. Tracked' = Tracked \union new
    BY <1>4, <2>1 DEF Tracked, Planned
  <2>3. op'.kind = "create" /\ op'.step = "send" /\ op'.todo = new
    BY <1>4 DEF TrackInv, StepInv, TypeOK, OpType
  <2>4. QueueInv'
    BY <1>2, <1>4, QuietQueue
  <2>5. StepInv'
    BY <1>2, <1>4, <2>3, BumpKeeps DEF TrackInv, StepInv
  <2>6. TodoInv' /\ VmsTracked'
    BY <1>4, <2>1, <2>2, <2>3 DEF TrackInv, TodoInv, VmsTracked, Untouched, Queued, Ordered
  <2> QED BY <2>4, <2>5, <2>6 DEF TrackInv
<1>5. ASSUME Plan PROVE TrackInv'
  BY <1>3, <1>4, <1>5, Zenon DEF Plan
<1>6. ASSUME op.step = "ask", MayResize, Bump,
             UNCHANGED <<queue, guest, answer, used, orphans, look>>,
             vms' = [vms EXCEPT ![op.vm] = [@ EXCEPT !.pending = op.target, !.error = TRUE]],
             op' = [op EXCEPT !.step = "send", !.todo = {op.vm}, !.saved = vms]
      PROVE  TrackInv'
  <2>1. op.vm \in Tracked /\ op.kind = "resize"
    BY <1>6 DEF MayResize, TrackInv, StepInv
  <2>2. Tracked' = Tracked
    <3>1. vms[op.vm] \in Row
      BY <2>1 DEF TypeOK, Tracked
    <3>2. [vms[op.vm] EXCEPT !.pending = op.target, !.error = TRUE].state = vms[op.vm].state
      BY <3>1 DEF Row
    <3> QED BY <1>6, <2>1, <3>2, TrackedKept DEF TypeOK, Tracked
  <2>3. /\ op'.kind = "resize" /\ op'.step = "send" /\ op'.todo = {op.vm}
        /\ op'.saved = vms
    BY <1>6, <2>1 DEF TypeOK, OpType
  <2>4. QueueInv'
    BY <1>2, <1>6, QuietQueue
  <2>5. StepInv'
    BY <1>2, <1>6, <2>1, <2>3, BumpKeeps DEF TrackInv, StepInv, Row0, Tracked
  <2>6. TodoInv' /\ VmsTracked'
    BY <1>6, <2>1, <2>2, <2>3 DEF TrackInv, TodoInv, VmsTracked, Untouched, Queued, Ordered
  <2> QED BY <2>4, <2>5, <2>6 DEF TrackInv
<1>7. ASSUME Ask PROVE TrackInv'
  BY <1>3, <1>6, <1>7, Zenon DEF Ask
<1>8. ASSUME Reserve PROVE TrackInv'
  <2>1. op.kind = "start" /\ \A v \in Vms : Row0(v) <=> v \in Tracked
    BY <1>8 DEF Reserve, TrackInv, StepInv
  <2>2. Tracked' = Tracked
    <3>1. \A v \in Vms : op.saved[v] \in Row
      BY DEF TypeOK, OpType
    <3>2. \A v \in Vms : vms'[v].state = "untracked" <=> op.saved[v].state = "untracked"
      BY <1>8, <3>1 DEF Reserve, Row
    <3> QED BY <2>1, <3>2 DEF Tracked, Row0
  <2>3. op'.kind = "start" /\ op'.step = "send" /\ op'.todo = Tracked
    BY <1>8, <2>1 DEF Reserve, TypeOK, OpType
  <2>4. QueueInv'
    BY <1>2, <1>8, QuietQueue DEF Reserve
  <2>5. StepInv'
    BY <1>2, <1>8, <2>3, BumpKeeps DEF Reserve, TrackInv, StepInv
  <2>6. TodoInv' /\ VmsTracked'
    BY <1>8, <2>2, <2>3 DEF Reserve, TrackInv, TodoInv, VmsTracked, Untouched, Queued, Ordered
  <2> QED BY <2>4, <2>5, <2>6 DEF TrackInv
<1>9. ASSUME Conclude PROVE TrackInv'
  BY <1>3, <1>9 DEF Conclude
<1> QED BY <1>5, <1>7, <1>8, <1>9

LEMMA SendTracks ==
  ASSUME TypeOK, TypeOK', TrackInv, NEW v \in Vms, Send(v)
  PROVE  TrackInv'
<1> USE DEF database, history
<1> DEFINE r == [kind |-> RequestKind, vm |-> v, target |-> op.target,
                 waited |-> TRUE, begun |-> FALSE]
           n == Len(queue[Home[v]]) + 1
<1>1. op.step = "send" /\ op.kind # "none" /\ v \in op.todo /\ answer.is = "none"
  BY DEF Send, TrackInv, StepInv
<1>2. Home[v] \in Hosts /\ queue[Home[v]] \in Seq(Request)
  BY FleetAssumption DEF TypeOK
<1>3. queue' = [queue EXCEPT ![Home[v]] = Append(queue[Home[v]], r)]
  BY Zenon DEF Send
<1>4. /\ r.vm = v /\ r.kind = RequestKind /\ r.waited /\ ~r.begun
      /\ r.kind = "create" => op.kind = "create"
  BY DEF RequestKind
<1> HIDE DEF r
<1>5. \A h \in Hosts : \A i \in DOMAIN queue[h] :
        i \in DOMAIN queue'[h] /\ queue'[h][i] = queue[h][i]
  BY <1>2, <1>3 DEF TypeOK
<1>6. /\ DOMAIN queue'[Home[v]] = DOMAIN queue[Home[v]] \union {n} /\ n \notin DOMAIN queue[Home[v]]
      /\ queue'[Home[v]][n] = r /\ \A i \in DOMAIN queue[Home[v]] : i < n
      /\ \A h \in Hosts \ {Home[v]} : queue'[h] = queue[h]
  BY <1>2, <1>3 DEF TypeOK
<1>7. /\ op'.step = "wait" /\ op'.vm = v /\ op'.todo = op.todo \ {v} /\ op'.kind = op.kind
      /\ op'.saved = op.saved
      /\ UNCHANGED <<database, answer, reads, look, guest, history>>
  BY DEF Send, TypeOK, OpType
<1>8. r.kind = "create" => \A i \in DOMAIN queue[Home[v]] : queue[Home[v]][i].vm # v
  BY <1>1, <1>4 DEF TrackInv, TodoInv, Untouched, Queued
<1> HIDE DEF n
<1>9. RequestKind' = RequestKind
  BY <1>7 DEF RequestKind
<1>10. QueueInv'
  <2> SUFFICES ASSUME NEW h \in Hosts, NEW i \in DOMAIN queue'[h]
               PROVE  LET q == queue'[h][i] IN
                      /\ Home[q.vm] = h
                      /\ q.begun => i = 1 /\ guest'[q.vm].state = InHand(q.kind)
                      /\ q.kind = "create" =>
                           \A j \in DOMAIN queue'[h] : j < i => queue'[h][j].vm # q.vm
                      /\ q.waited => /\ op'.step = "wait" /\ answer'.is = "none"
                                     /\ q.vm = op'.vm /\ q.kind = RequestKind'
                                     /\ \A j \in DOMAIN queue'[h] : queue'[h][j].waited => j = i
    BY DEF QueueInv
  <2>1. \A g \in Hosts : \A j \in DOMAIN queue[g] : ~queue[g][j].waited
    BY <1>1, NobodyWaits
  <2>2. CASE h = Home[v] /\ i = n
    <3>1. queue'[h][i] = r /\ Home[r.vm] = h
      BY <1>4, <1>6, <2>2
    <3>2. r.kind = "create" => \A j \in DOMAIN queue'[h] : j < i => queue'[h][j].vm # r.vm
      <4>1. \A j \in DOMAIN queue'[h] : j < n => j \in DOMAIN queue[h]
        <5>1. n \in Nat
          BY <1>2 DEF n
        <5> QED BY <1>6, <2>2, <5>1
      <4> QED BY <1>4, <1>5, <1>8, <2>2, <4>1
    <3>3. op'.step = "wait" /\ answer'.is = "none" /\ r.vm = op'.vm /\ r.kind = RequestKind'
      BY <1>1, <1>4, <1>7, <1>9
    <3>4. \A j \in DOMAIN queue'[h] : queue'[h][j].waited => j = i
      BY <1>5, <1>6, <2>1, <2>2
    <3> QED BY <1>4, <3>1, <3>2, <3>3, <3>4
  <2>3. CASE ~(h = Home[v] /\ i = n)
    <3>1. i \in DOMAIN queue[h] /\ queue'[h][i] = queue[h][i]
      BY <1>5, <1>6, <2>3
    <3>2. \A j \in DOMAIN queue'[h] : j < i => j \in DOMAIN queue[h]
      <4>1. CASE h = Home[v]
        <5>1. i < n /\ i \in Nat /\ n \in Nat
          BY <1>2, <1>6, <3>1, <4>1 DEF n
        <5> QED BY <1>6, <4>1, <5>1
      <4> QED BY <1>6, <4>1
    <3> QED BY <1>5, <1>7, <2>1, <3>1, <3>2 DEF TrackInv, QueueInv
  <2> QED BY <2>2, <2>3
<1>11. StepInv'
  BY <1>1, <1>7 DEF TrackInv, StepInv, TodoInv, Row0
<1>12. \A w \in Vms \ {v} : Queued(w)' <=> Queued(w)
  <2>1. \A w \in Vms : Home[w] \in Hosts
    BY FleetAssumption
  <2> QED BY <1>4, <1>5, <1>6, <2>1 DEF Queued
<1>13. \A w \in Vms : Ordered(Home[w], w)' => Ordered(Home[w], w) \/ (w = v /\ op.kind = "create")
  <2>1. \A w \in Vms : Home[w] \in Hosts
    BY FleetAssumption
  <2> QED BY <1>4, <1>5, <1>6, <2>1 DEF Ordered
<1>14. TodoInv'
  <2>1. op'.todo \subseteq Vms
    BY DEF TypeOK, OpType
  <2>2. Tracked' = Tracked /\ v \in used
    BY <1>1, <1>7 DEF Tracked, TrackInv, TodoInv
  <2>3. \A w \in Vms \ {v} : Untouched(w) => Untouched(w)'
    BY <1>7, <1>12 DEF Untouched
  <2> QED BY <1>1, <1>7, <2>1, <2>2, <2>3 DEF TrackInv, TodoInv
<1>15. VmsTracked'
  BY <1>1, <1>7, <1>13 DEF TrackInv, VmsTracked, TodoInv, Tracked
<1> QED BY <1>10, <1>11, <1>14, <1>15 DEF TrackInv

LEMMA AbandonedTracks ==
  ASSUME TypeOK, TrackInv, UNCHANGED guest, queue' = [h \in Hosts |-> Abandoned(queue[h])]
  PROVE  /\ QueueInv'
         /\ \A v \in Vms : Queued(v)' <=> Queued(v)
         /\ \A v \in Vms : Ordered(Home[v], v)' <=> Ordered(Home[v], v)
<1>1. \A h \in Hosts :
        /\ DOMAIN queue'[h] = DOMAIN queue[h]
        /\ \A i \in DOMAIN queue[h] : queue'[h][i] = [queue[h][i] EXCEPT !.waited = FALSE]
  BY AbandonedType DEF TypeOK
<1>2. ASSUME NEW h \in Hosts, NEW i \in DOMAIN queue[h]
      PROVE  /\ queue'[h][i].vm = queue[h][i].vm /\ queue'[h][i].kind = queue[h][i].kind
             /\ ~queue'[h][i].waited /\ (queue'[h][i].begun <=> queue[h][i].begun)
  <2>1. queue[h][i] \in Request /\ queue'[h][i] = [queue[h][i] EXCEPT !.waited = FALSE]
    BY <1>1 DEF TypeOK
  <2>2. ASSUME NEW r \in Request
        PROVE  /\ [r EXCEPT !.waited = FALSE].vm = r.vm
               /\ [r EXCEPT !.waited = FALSE].kind = r.kind
               /\ ~[r EXCEPT !.waited = FALSE].waited
               /\ [r EXCEPT !.waited = FALSE].begun = r.begun
    BY DEF Request
  <2> QED BY <2>1, <2>2, Zenon
<1>3. QueueInv'
  BY <1>1, <1>2 DEF TrackInv, QueueInv
<1>4. \A v \in Vms : Home[v] \in Hosts
  BY FleetAssumption
<1>5. ASSUME NEW v \in Vms
      PROVE  (Queued(v)' <=> Queued(v)) /\ (Ordered(Home[v], v)' <=> Ordered(Home[v], v))
  <2> DEFINE h == Home[v]
  <2>1. h \in Hosts /\ DOMAIN queue'[h] = DOMAIN queue[h]
    BY <1>1, <1>4
  <2>2. \A i \in DOMAIN queue[h] :
          queue'[h][i].vm = queue[h][i].vm /\ queue'[h][i].kind = queue[h][i].kind
    BY <1>2, <2>1
  <2> QED BY <2>1, <2>2, Zenon DEF Queued, Ordered
<1> QED BY <1>3, <1>5

LEMMA SendsTrack ==
  ASSUME TypeOK, TypeOK', TrackInv,
         \/ \E v \in Vms : SkipHost(v) \/ SendFails(v)
         \/ SendsDone \/ Timeout
  PROVE  TrackInv'
<1> USE DEF database, agents, history
<1>1. ASSUME NEW v \in Vms, SkipHost(v) PROVE TrackInv'
  <2>1. /\ op'.step = op.step /\ op'.kind = op.kind /\ op'.saved = op.saved /\ op'.vm = op.vm
        /\ op'.todo = op.todo \ {v} /\ op.step = "send" /\ UNCHANGED <<vms, guest, queue>>
    BY <1>1 DEF SkipHost, TypeOK, OpType
  <2>2. QueueInv'
    BY <2>1, QuietQueue
  <2>3. StepInv'
    BY <1>1, <2>1 DEF SkipHost, TrackInv, StepInv, Row0
  <2>4. UNCHANGED <<vms, guest, queue, used, orphans>> /\ Tracked' = Tracked
    BY <1>1 DEF SkipHost, Tracked
  <2>5. TodoInv'
    BY <2>1, <2>4 DEF TrackInv, TodoInv, Untouched, Queued
  <2>6. VmsTracked'
    BY <2>4 DEF TrackInv, VmsTracked, Ordered
  <2> QED BY <2>2, <2>3, <2>5, <2>6 DEF TrackInv
<1>2. ASSUME NEW v \in Vms, SendFails(v) PROVE TrackInv'
  <2>1. /\ op'.step = "wait" /\ op'.kind = op.kind /\ op'.saved = op.saved /\ op'.vm = v
        /\ op'.todo = op.todo \ {v} /\ op.step = "send" /\ v \in op.todo
        /\ answer'.is = "error" /\ UNCHANGED <<vms, guest, queue>>
    BY <1>2 DEF SendFails, TypeOK, OpType, NoAnswer
  <2>2. QueueInv'
    BY <2>1, QuietQueue
  <2>3. StepInv'
    BY <1>2, <2>1 DEF SendFails, TrackInv, StepInv, TodoInv, Row0
  <2>4. UNCHANGED <<vms, guest, queue, used, orphans>> /\ Tracked' = Tracked
    BY <1>2 DEF SendFails, Tracked
  <2>5. TodoInv'
    BY <2>1, <2>4 DEF TrackInv, TodoInv, Untouched, Queued
  <2>6. VmsTracked'
    BY <2>4 DEF TrackInv, VmsTracked, Ordered
  <2> QED BY <2>2, <2>3, <2>5, <2>6 DEF TrackInv
<1>3. ASSUME SendsDone PROVE TrackInv'
  <2>1. /\ op.step = "send" /\ op.kind # "none" /\ op'.kind = op.kind /\ op'.todo = {}
        /\ op'.step \in {"conclude", "refresh"} /\ UNCHANGED <<vms, guest, queue>>
    BY <1>3 DEF SendsDone, After, TypeOK, OpType, TrackInv, StepInv
  <2>2. reads[Own].step # "reading"
    BY <2>1 DEF TrackInv, StepInv
  <2> QED BY <1>3, <2>1, <2>2, QuietTracks DEF SendsDone, Tracked
<1>4. ASSUME Timeout PROVE TrackInv'
  <2>1. op.step = "wait" /\ answer'.is = "error"
    BY <1>4 DEF Timeout, NoAnswer
  <2>2. /\ QueueInv'
        /\ \A v \in Vms : Queued(v)' <=> Queued(v)
        /\ \A v \in Vms : Ordered(Home[v], v)' <=> Ordered(Home[v], v)
    BY <1>4, AbandonedTracks DEF Timeout
  <2>3. StepInv'
    BY <1>4, <2>1 DEF Timeout, TrackInv, StepInv, Row0
  <2>4. op' = op /\ guest' = guest /\ used' = used /\ orphans' = orphans /\ Tracked' = Tracked
    BY <1>4 DEF Timeout, Tracked
  <2>5. \A v \in Vms : Untouched(v) => Untouched(v)'
    BY <2>2, <2>4 DEF Untouched
  <2>6. TodoInv'
    BY <2>1, <2>4, <2>5 DEF TrackInv, TodoInv, TypeOK, OpType
  <2>7. VmsTracked'
    BY <2>2, <2>4 DEF TrackInv, VmsTracked
  <2> QED BY <2>2, <2>3, <2>6, <2>7 DEF TrackInv
<1> QED BY <1>1, <1>2, <1>3, <1>4

LEMMA TakesTrack ==
  ASSUME TypeOK, TypeOK', TrackInv, TakeCreated \/ TakeDeleted \/ TakeChanged \/ TakeResized
  PROVE  TrackInv'
<1> USE DEF agents, history
<1>1. op.step = "wait" /\ answer.is # "none" /\ \E f \in BOOLEAN : Continue(f)
  BY Zenon DEF TakeCreated, TakeDeleted, TakeChanged, TakeResized, Answered, Succeeded, Deleted
<1>2. op.vm \in used /\ op.vm \in Vms /\ op.kind # "none"
  BY <1>1 DEF TrackInv, StepInv, TypeOK
<1>3. /\ op'.step = "send" /\ op'.kind = op.kind /\ op'.todo = op.todo /\ op'.saved = op.saved
      /\ answer'.is = "none" /\ UNCHANGED <<queue, guest, used, orphans, reads, look>>
  BY <1>1 DEF Continue, NoAnswer, TypeOK, OpType
<1>4. /\ Tracked' \subseteq Tracked \union {op.vm}
      /\ \A v \in Tracked \ Tracked' : /\ v = op.vm /\ op.kind \in {"delete", "expire"}
                                     /\ guest[v].state = "absent" /\ ~Ordered(Home[v], v)
  <2>1. \A v \in Vms : v # op.vm => vms'[v] = vms[v]
    <3>1. ASSUME TakeDeleted PROVE \A v \in Vms : v # op.vm => vms'[v] = vms[v]
      BY <3>1 DEF TakeDeleted, Without
    <3> QED BY <1>2, <3>1 DEF TakeCreated, TakeChanged, TakeResized, TypeOK
  <2>2. ASSUME TakeCreated, op.vm \in Tracked PROVE op.vm \in Tracked'
    <3>1. vms[op.vm] \in Row
      BY <1>2 DEF TypeOK
    <3>2. [vms[op.vm] EXCEPT !.error = TRUE].state = vms[op.vm].state
      BY <3>1 DEF Row
    <3>3. Succeeded => Confirmed(answer.guest).state # "untracked"
      <4>1. answer.guest \in Guest
        BY DEF TypeOK, AnswerType
      <4> QED BY <4>1 DEF Confirmed, Guest, States
    <3> QED BY <1>2, <2>2, <3>2, <3>3 DEF TakeCreated, TypeOK, Tracked
  <2>3. ASSUME TakeChanged, op.vm \in Tracked PROVE op.vm \in Tracked'
    <3>1. op.saved[op.vm] \in Row /\ answer.guest.served \in Nat
      BY <1>2 DEF TypeOK, OpType, AnswerType, Guest
    <3>2. ASSUME NEW s \in {"running", "stopped"}, NEW n \in Nat
          PROVE  [op.saved[op.vm] EXCEPT !.state = s, !.error = FALSE,
                    !.confirmed = n, !.fresh = TRUE].state = s
      BY <3>1 DEF Row
    <3> QED BY <1>2, <2>3, <3>1, <3>2 DEF TakeChanged, TypeOK, Tracked
  <2>4. ASSUME TakeResized, op.vm \in Tracked PROVE op.vm \in Tracked'
    <3>1. Succeeded => Confirmed(answer.guest).state # "untracked"
      <4>1. answer.guest \in Guest
        BY DEF TypeOK, AnswerType
      <4> QED BY <4>1 DEF Confirmed, Guest, States
    <3>2. op.saved[op.vm].state # "untracked"
      BY <1>1, <2>4 DEF TakeResized, Answered, TrackInv, StepInv, Row0
    <3> QED BY <1>2, <2>4, <3>1, <3>2 DEF TakeResized, TypeOK, Tracked
  <2>5. ASSUME TakeDeleted, op.vm \in Tracked \ Tracked'
        PROVE  /\ op.kind \in {"delete", "expire"} /\ guest[op.vm].state = "absent"
               /\ ~Ordered(Home[op.vm], op.vm)
    <3>1. op.kind \in {"delete", "expire"} /\ answer.is = "ok"
      BY <2>5 DEF TakeDeleted, Answered, Deleted, Succeeded, Tracked
    <3> QED BY <1>1, <3>1 DEF TrackInv, TodoInv, Deletes
  <2> QED BY <2>1, <2>2, <2>3, <2>4, <2>5 DEF Tracked
<1>5. QueueInv'
  BY <1>1, <1>3, QuietQueue
<1>6. StepInv'
  BY <1>1, <1>2, <1>3 DEF TrackInv, StepInv, Row0
<1>7. TodoInv' /\ VmsTracked'
  <2>1. Tracked' \subseteq used
    BY <1>2, <1>4 DEF TrackInv, TodoInv
  <2>2. TodoInv'
    BY <1>2, <1>3, <1>4, <2>1 DEF TrackInv, TodoInv, Untouched, Queued
  <2>3. VmsTracked'
    BY <1>2, <1>3, <1>4 DEF TrackInv, VmsTracked, Ordered
  <2> QED BY <2>2, <2>3
<1> QED BY <1>5, <1>6, <1>7 DEF TrackInv

LEMMA ReadsTrack ==
  ASSUME TypeOK, TypeOK', TrackInv, NEW r \in Readers,
         \/ StartRead(r) \/ EndRead(r)
         \/ \E h \in Hosts : Fetch(r, h) \/ FetchFails(r, h) \/ Apply(r, h)
  PROVE  TrackInv'
<1> USE DEF database, agents, history
<1>1. \A x \in Readers : reads[x] \in ReadType
  BY DEF TypeOK
<1>2. ASSUME NEW h \in Hosts, Fetch(r, h) \/ FetchFails(r, h) PROVE TrackInv'
  <2>1. reads'[Own].step = reads[Own].step
    BY <1>1, <1>2 DEF Fetch, FetchFails, Got, TypeOK, ReadType, Readers
  <2> QED BY <1>2, <2>1, FrameTracks DEF Fetch, FetchFails, Tracked
<1>3. ASSUME NEW h \in Hosts, Apply(r, h) PROVE TrackInv'
  <2>1. reads'[Own].step = reads[Own].step
    BY <1>1, <1>3 DEF Apply, TypeOK, ReadType, Readers
  <2>2. Tracked' = Tracked
    <3>1. \A v \in Vms : Observed(vms[v], reads[r].got[h].guests[v]).state # "untracked"
      <4>1. \A v \in Vms : vms[v] \in Row /\ reads[r].got[h].guests[v] \in Guest
        BY <1>1 DEF TypeOK, ReadType, Snapshot
      <4> QED BY <4>1, MergedType
    <3>2. \A v \in Vms : \/ vms'[v] = vms[v]
                         \/ /\ v \in Tracked
                            /\ vms'[v] = Observed(vms[v], reads[r].got[h].guests[v])
      BY <1>3 DEF Apply, TrackedOn
    <3> QED BY <3>1, <3>2 DEF Tracked
  <2> QED BY <1>3, <2>1, <2>2, FrameTracks DEF Apply
<1>4. ASSUME StartRead(r) PROVE TrackInv'
  <2>1. CASE r # Own
    BY <1>4, <2>1, FrameTracks DEF StartRead, Tracked, Readers, TypeOK
  <2>2. CASE r = Own
    <3>1. op.step \in {"survey", "refresh"}
      BY <1>4, <2>2 DEF StartRead
    <3>2. QueueInv'
      BY <1>4, <3>1, QuietQueue DEF StartRead
    <3>3. StepInv'
      BY <1>4, <3>1 DEF StartRead, TrackInv, StepInv, Row0, Tracked
    <3>4. TodoInv' /\ VmsTracked'
      BY <1>4
         DEF StartRead, TrackInv, TodoInv, VmsTracked, Untouched, Queued, Ordered, Deletes, Tracked
    <3> QED BY <3>2, <3>3, <3>4 DEF TrackInv
  <2> QED BY <2>1, <2>2
<1>5. ASSUME EndRead(r) PROVE TrackInv'
  <2>1. CASE r # Own
    BY <1>5, <2>1, FrameTracks DEF EndRead, Tracked, Readers, TypeOK
  <2>2. CASE r = Own
    <3>1. /\ op.step \in {"survey", "refresh"} /\ op'.kind = op.kind /\ op'.vm = op.vm
          /\ op'.todo = op.todo /\ op'.saved = op.saved /\ reads'[Own].step = "idle"
          /\ op'.step = IF op.step = "survey" THEN "ask" ELSE "conclude"
      BY <1>5, <2>2 DEF EndRead, TrackInv, StepInv, TypeOK, OpType, NoRead, Readers
    <3>2. QueueInv'
      BY <1>5, <3>1, QuietQueue DEF EndRead
    <3>3. StepInv'
      BY <1>5, <3>1 DEF EndRead, TrackInv, StepInv, Row0, Tracked
    <3>4. TodoInv' /\ VmsTracked'
      BY <1>5, <3>1
         DEF EndRead, TrackInv, TodoInv, VmsTracked, Untouched, Queued, Ordered, Deletes, Tracked
    <3> QED BY <3>2, <3>3, <3>4 DEF TrackInv
  <2> QED BY <2>1, <2>2
<1> QED BY <1>2, <1>3, <1>4, <1>5

LEMMA HostsTrack ==
  ASSUME TypeOK, TypeOK', TrackInv,
         \/ Retain \/ \E v \in Vms : Inspect(v)
         \/ \E h \in Hosts : Register(h) \/ Remove(h) \/ Detach(h)
  PROVE  TrackInv'
<1> USE DEF database, agents, history, process
<1>1. ASSUME Retain PROVE TrackInv'
  <2>1. Tracked' = Tracked
    <3>1. CASE look.vm \notin Tracked
      BY <1>1, <3>1 DEF Retain, Tracked
    <3>2. CASE look.vm \in Tracked
      <4>1. look.vm \in Vms /\ look.guest \in Guest /\ look.guest.state # "absent"
        BY <1>1 DEF Retain, TrackInv, StepInv, TypeOK, LookType
      <4>2. Merged(vms[look.vm], look.guest).state # "untracked"
        BY <4>1, MergedType DEF TypeOK
      <4>3. vms' = [vms EXCEPT ![look.vm] = Merged(vms[look.vm], look.guest)]
        BY <1>1, <3>2, Zenon DEF Retain
      <4> QED BY <3>2, <4>1, <4>2, <4>3 DEF Tracked, TypeOK
    <3> QED BY <3>1, <3>2
  <2>2. reads'[Own].step = reads[Own].step
    BY <1>1, BumpKeeps DEF Retain
  <2> QED BY <1>1, <2>1, <2>2, FrameTracks DEF Retain
<1>2. ASSUME NEW v \in Vms, Inspect(v) PROVE TrackInv'
  <2>1. QueueInv'
    BY <1>2 DEF Inspect, TrackInv, QueueInv, RequestKind
  <2>2. StepInv'
    BY <1>2 DEF Inspect, TrackInv, StepInv, Row0, Tracked
  <2>3. TodoInv' /\ VmsTracked'
    BY <1>2
       DEF Inspect, TrackInv, TodoInv, VmsTracked, Untouched, Queued, Ordered, Deletes, Tracked
  <2> QED BY <2>1, <2>2, <2>3 DEF TrackInv
<1>3. ASSUME NEW h \in Hosts, Register(h) \/ Remove(h) PROVE TrackInv'
  BY <1>3, FrameTracks DEF Register, Remove, Tracked
<1>4. ASSUME NEW h \in Hosts, Detach(h) PROVE TrackInv'
  <2>1. /\ vms' = Without(TrackedOn(h)) /\ orphans' = orphans \union TrackedOn(h)
        /\ (~Busy \/ TrackedOn(h) = {}) /\ Bump
        /\ UNCHANGED <<op, answer, look, queue, guest, used>>
    BY <1>4 DEF Detach
  <2>2. Tracked' = Tracked \ TrackedOn(h)
    BY <2>1 DEF Without, NoRow, Planned, Tracked
  <2>3. QueueInv'
    BY <2>1 DEF TrackInv, QueueInv, RequestKind
  <2>4. StepInv'
    BY <2>1, <2>2, BumpKeeps DEF TrackInv, StepInv, Row0, Busy
  <2>5. TodoInv'
    <3>1. \A v \in Vms : Untouched(v)' <=> Untouched(v)
      BY <2>1 DEF Untouched, Queued
    <3> QED BY <2>1, <2>2, <3>1 DEF TrackInv, TodoInv, Deletes, TypeOK, OpType, Ordered
  <2>6. VmsTracked'
    BY <2>1, <2>2 DEF TrackInv, VmsTracked, Ordered
  <2> QED BY <2>3, <2>4, <2>5, <2>6 DEF TrackInv
<1> QED BY <1>1, <1>2, <1>3, <1>4

(***************************************************************************)
(* Tracking: the agents.                                                   *)
(***************************************************************************)
\* The first request of an agent; what holds of it, and of the others behind it.
LEMMA FirstTracks ==
  ASSUME TypeOK, TrackInv, NEW h \in Hosts, queue[h] # <<>>
  PROVE  LET r == First(h) IN
         /\ 1 \in DOMAIN queue[h] /\ r = queue[h][1] /\ r \in Request /\ Home[r.vm] = h
         /\ r.vm \in used /\ Queued(r.vm)
         /\ r.begun => guest[r.vm].state = InHand(r.kind)
         /\ r.kind = "create" => Ordered(h, r.vm)
         /\ r.waited => /\ op.step = "wait" /\ answer.is = "none"
                        /\ r.vm = op.vm /\ r.kind = RequestKind
         /\ r.kind # "create" => ~ \E i \in DOMAIN queue[h] :
                                    queue[h][i].vm = r.vm /\ queue[h][i].kind = "create"
<1> DEFINE r == First(h)
<1>1. queue[h] \in Seq(Request) /\ 1 \in DOMAIN queue[h]
  BY DEF TypeOK
<1>2. r = queue[h][1] /\ r \in Request /\ r.vm \in Vms
  BY FirstType
<1> HIDE DEF r
<1>3. Home[r.vm] = h
  BY <1>1, <1>2 DEF TrackInv, QueueInv
<1>4. r.begun => guest[r.vm].state = InHand(r.kind)
  BY <1>1, <1>2 DEF TrackInv, QueueInv
<1>5. r.waited => op.step = "wait" /\ answer.is = "none" /\ r.vm = op.vm /\ r.kind = RequestKind
  BY <1>1, <1>2 DEF TrackInv, QueueInv
<1>6. Queued(r.vm) /\ (r.kind = "create" => Ordered(h, r.vm))
  BY <1>1, <1>2, <1>3 DEF Queued, Ordered
<1>7. r.vm \in used
  BY <1>2, <1>6 DEF TrackInv, TodoInv, Untouched
<1>8. ASSUME NEW i \in DOMAIN queue[h], queue[h][i].vm = r.vm, queue[h][i].kind = "create"
      PROVE  r.kind = "create"
  <2>1. CASE i = 1
    BY <1>2, <1>8, <2>1
  <2>2. CASE i # 1
    <3>1. 1 < i
      BY <1>1, <2>2
    <3> QED BY <1>1, <1>2, <1>8, <3>1 DEF TrackInv, QueueInv
  <2> QED BY <2>1, <2>2
<1> QED BY <1>1, <1>2, <1>3, <1>4, <1>5, <1>6, <1>7, <1>8 DEF r

\* A change of the guest of a VM that was known: tracking survives when only a creation
\* makes an absent guest present.
LEMMA GuestTracks ==
  ASSUME TypeOK, TypeOK', TrackInv, NEW v \in used,
         \A w \in Vms \ {v} : guest'[w] = guest[w],
         guest'[v].state # "absent" => guest[v].state # "absent" \/ Ordered(Home[v], v),
         Untouched(v) => guest'[v].state = "absent",
         \A w \in Vms : Queued(w)' => Queued(w),
         \A w \in Vms : Ordered(Home[w], w)' => Ordered(Home[w], w),
         UNCHANGED <<op, used, orphans>>, Tracked' = Tracked
  PROVE  /\ VmsTracked'
         /\ \A w \in Vms : Untouched(w) => Untouched(w)'
         /\ answer' = answer \/ answer'.is # "ok" => TodoInv'
<1>1. v \in Vms
  BY DEF TypeOK
<1>2. VmsTracked'
  BY <1>1 DEF TrackInv, VmsTracked
<1>3. \A w \in Vms : Untouched(w) => Untouched(w)'
  BY <1>1 DEF Untouched
<1>4. ASSUME answer' = answer \/ answer'.is # "ok" PROVE TodoInv'
  <2>1. op.todo \subseteq Vms
    BY DEF TypeOK, OpType
  <2>2. op.step = "wait" => op.vm \in Vms
    BY DEF TypeOK, TrackInv, StepInv
  <2>3. /\ op'.todo \subseteq used'
        /\ op'.kind = "create" =>
             \A w \in op'.todo : Untouched(w)' /\ w \in Tracked' \union orphans'
        /\ Tracked' \subseteq used' /\ \A w \in Vms \ used' : Untouched(w)'
    BY <1>3, <2>1 DEF TrackInv, TodoInv
  <2>4. ASSUME op'.step = "wait", answer'.is = "ok"
        PROVE  (IF Deletes THEN guest[op.vm].state = "absent" /\ ~Ordered(Home[op.vm], op.vm)
                ELSE op.kind \in {"create", "resize"} => answer.guest.state # "absent")'
    <3>1. answer' = answer /\ op.step = "wait" /\ answer.is = "ok" /\ op.vm \in Vms /\ op' = op
      BY <1>4, <2>2, <2>4
    <3>2. CASE ~Deletes
      BY <3>1, <3>2 DEF Deletes, TrackInv, TodoInv
    <3>3. CASE Deletes
      <4>1. guest[op.vm].state = "absent" /\ ~Ordered(Home[op.vm], op.vm)
        BY <3>1, <3>3 DEF TrackInv, TodoInv
      <4>2. guest'[op.vm].state = "absent"
        BY <1>1, <3>1, <4>1
      <4>3. \A w \in Vms : ~Ordered(Home[w], w) =>
              ~ \E i \in DOMAIN queue'[Home[w]] :
                  queue'[Home[w]][i].vm = w /\ queue'[Home[w]][i].kind = "create"
        BY DEF Ordered
      <4> QED BY <3>1, <3>3, <4>1, <4>2, <4>3 DEF Deletes, Ordered
    <3> QED BY <3>2, <3>3
  <2> QED BY <2>3, <2>4, Zenon DEF TodoInv
<1> QED BY <1>2, <1>3, <1>4

LEMMA ReplyTracks ==
  ASSUME TypeOK, TypeOK', TrackInv, NEW h \in Hosts, queue[h] # <<>>,
         NEW is \in {"ok", "refused", "error"}, NEW g \in Guest, Reply(h, is, g),
         g.state # "absent" => guest[First(h).vm].state # "absent" \/ First(h).kind = "create",
         is = "ok" /\ First(h).kind = "delete" => g.state = "absent",
         is = "ok" /\ First(h).kind \in {"create", "resize"} => g.state # "absent"
  PROVE  TrackInv'
<1> USE DEF database, history
<1> DEFINE r == First(h)
           done == [g EXCEPT !.served = @ + 1]
<1>1. /\ guest' = [guest EXCEPT ![r.vm] = done]
      /\ queue' = [queue EXCEPT ![h] = Tail(queue[h])]
      /\ answer' = IF r.waited THEN [is |-> is, guest |-> done] ELSE answer
      /\ UNCHANGED <<database, op, reads, look, sweep, history>>
  BY Zenon DEF Reply
<1>2. done.state = g.state
  BY DEF Guest
<1> HIDE DEF done
<1>3. /\ 1 \in DOMAIN queue[h] /\ r = queue[h][1] /\ r \in Request /\ Home[r.vm] = h
      /\ r.vm \in used /\ Queued(r.vm)
  BY FirstTracks
<1>4. /\ r.kind = "create" => Ordered(h, r.vm)
      /\ r.waited => /\ op.step = "wait" /\ answer.is = "none"
                     /\ r.vm = op.vm /\ r.kind = RequestKind
      /\ r.kind # "create" =>
           \A i \in DOMAIN queue[h] : ~(queue[h][i].vm = r.vm /\ queue[h][i].kind = "create")
  BY FirstTracks
<1>5. /\ g.state # "absent" => guest[r.vm].state # "absent" \/ r.kind = "create"
      /\ is = "ok" /\ r.kind = "delete" => g.state = "absent"
      /\ is = "ok" /\ r.kind \in {"create", "resize"} => g.state # "absent"
  OBVIOUS
<1> HIDE DEF r
<1>6. /\ \A i \in DOMAIN queue'[h] : /\ i + 1 \in DOMAIN queue[h] /\ i \in Nat \ {0}
                                   /\ queue'[h][i] = queue[h][i + 1]
      /\ \A k \in Hosts \ {h} : queue'[k] = queue[k]
  BY <1>1, <1>3 DEF TypeOK
<1>7. r.vm \in Vms /\ guest'[r.vm] = done /\ \A w \in Vms \ {r.vm} : guest'[w] = guest[w]
  BY <1>1, <1>3 DEF TypeOK
<1>8. \A w \in Vms : Home[w] \in Hosts
  BY FleetAssumption
<1>9. \A w \in Vms : Queued(w)' => Queued(w)
  BY <1>6, <1>8 DEF Queued
<1>10. \A w \in Vms : Ordered(Home[w], w)' => Ordered(Home[w], w)
  BY <1>6, <1>8 DEF Ordered
<1>11. QueueInv'
  <2> SUFFICES ASSUME NEW k \in Hosts, NEW i \in DOMAIN queue'[k]
               PROVE  LET q == queue'[k][i] IN
                      /\ Home[q.vm] = k
                      /\ q.begun => i = 1 /\ guest'[q.vm].state = InHand(q.kind)
                      /\ q.kind = "create" =>
                           \A j \in DOMAIN queue'[k] : j < i => queue'[k][j].vm # q.vm
                      /\ q.waited => /\ op'.step = "wait" /\ answer'.is = "none"
                                     /\ q.vm = op'.vm /\ q.kind = RequestKind'
                                     /\ \A j \in DOMAIN queue'[k] : queue'[k][j].waited => j = i
    BY DEF QueueInv
  <2>1. ASSUME NEW k2 \in Hosts, NEW j \in DOMAIN queue[k2], queue[k2][j].waited, r.waited
        PROVE  k2 = h /\ j = 1
    <3>1. queue[k2][j].vm = op.vm /\ Home[queue[k2][j].vm] = k2 /\ r.vm = op.vm
      BY <1>4, <2>1 DEF TrackInv, QueueInv
    <3>2. k2 = h
      BY <1>3, <3>1
    <3> QED BY <1>3, <2>1, <3>2 DEF TrackInv, QueueInv
  <2>2. RequestKind' = RequestKind
    BY <1>1 DEF RequestKind
  <2>3. CASE k = h
    <3>1. i + 1 \in DOMAIN queue[h] /\ queue'[h][i] = queue[h][i + 1] /\ i \in Nat \ {0}
      BY <1>6, <2>3
    <3>2. Home[queue[h][i + 1].vm] = h /\ ~queue[h][i + 1].begun
      BY <3>1 DEF TrackInv, QueueInv
    <3>3. queue[h][i + 1].kind = "create" =>
            \A j \in DOMAIN queue'[h] : j < i => queue'[h][j].vm # queue[h][i + 1].vm
      <4>1. \A j \in DOMAIN queue'[h] : j < i => j + 1 < i + 1
        BY <1>6, <3>1
      <4> QED BY <1>6, <3>1, <4>1 DEF TrackInv, QueueInv
    <3>4. queue[h][i + 1].waited =>
            /\ op.step = "wait" /\ answer.is = "none" /\ queue[h][i + 1].vm = op.vm
            /\ queue[h][i + 1].kind = RequestKind /\ ~r.waited
            /\ \A j \in DOMAIN queue'[h] : queue'[h][j].waited => j = i
      <4>1. queue[h][i + 1].waited => ~r.waited
        BY <2>1, <3>1
      <4>2. queue[h][i + 1].waited =>
              /\ op.step = "wait" /\ answer.is = "none" /\ queue[h][i + 1].vm = op.vm
              /\ queue[h][i + 1].kind = RequestKind
              /\ \A j \in DOMAIN queue[h] : queue[h][j].waited => j = i + 1
        BY <3>1 DEF TrackInv, QueueInv
      <4> QED BY <1>6, <3>1, <4>1, <4>2
    <3> QED BY <1>1, <2>2, <2>3, <3>1, <3>2, <3>3, <3>4
  <2>4. CASE k # h
    <3>1. queue'[k] = queue[k] /\ queue[k][i].vm # r.vm /\ queue[k][i].vm \in Vms
      <4>1. i \in DOMAIN queue[k] /\ queue[k] \in Seq(Request)
        BY <1>6, <2>4 DEF TypeOK
      <4>2. queue[k][i] \in Request
        BY <4>1
      <4> QED BY <1>3, <1>6, <2>4, <4>1, <4>2 DEF Request, TrackInv, QueueInv
    <3>2. queue[k][i].waited => answer' = answer
      BY <1>1, <1>6, <2>1, <2>4
    <3>3. i \in DOMAIN queue[k] /\ DOMAIN queue'[k] = DOMAIN queue[k]
      BY <3>1
    <3>4. /\ Home[queue[k][i].vm] = k
          /\ queue[k][i].begun => i = 1 /\ guest[queue[k][i].vm].state = InHand(queue[k][i].kind)
      BY <3>3 DEF TrackInv, QueueInv
    <3>5. queue[k][i].kind = "create" =>
            \A j \in DOMAIN queue[k] : j < i => queue[k][j].vm # queue[k][i].vm
      BY <3>3 DEF TrackInv, QueueInv
    <3>6. queue[k][i].waited => /\ op.step = "wait" /\ answer.is = "none"
                               /\ queue[k][i].vm = op.vm /\ queue[k][i].kind = RequestKind
                               /\ \A j \in DOMAIN queue[k] : queue[k][j].waited => j = i
      BY <3>3 DEF TrackInv, QueueInv
    <3>7. guest'[queue[k][i].vm] = guest[queue[k][i].vm] /\ op' = op
      BY <1>1, <1>7, <3>1
    <3> HIDE DEF QueueInv
    <3> QED BY <2>2, <3>1, <3>2, <3>4, <3>5, <3>6, <3>7
  <2> QED BY <2>3, <2>4
<1>12. StepInv'
  BY <1>1, <1>4 DEF TrackInv, StepInv, Row0, Tracked
<1>13. Tracked' = Tracked
  BY <1>1 DEF Tracked
<1>14. /\ VmsTracked'
       /\ \A w \in Vms : Untouched(w) => Untouched(w)'
       /\ answer' = answer \/ answer'.is # "ok" => TodoInv'
  <2>1. guest'[r.vm].state # "absent" => guest[r.vm].state # "absent" \/ Ordered(Home[r.vm], r.vm)
    BY <1>2, <1>3, <1>4, <1>5, <1>7
  <2>2. ~Untouched(r.vm)
    BY <1>3 DEF Untouched
  <2> QED BY <1>1, <1>3, <1>7, <1>9, <1>10, <1>13, <2>1, <2>2, GuestTracks
<1>15. TodoInv'
  <2>1. CASE ~r.waited
    BY <1>1, <1>14, <2>1
  <2>2. CASE is # "ok"
    BY <1>1, <1>14, <2>2
  <2>3. CASE r.waited /\ is = "ok"
    <3>1. /\ op'.todo \subseteq used'
          /\ op'.kind = "create" =>
               \A w \in op'.todo : Untouched(w)' /\ w \in Tracked' \union orphans'
          /\ Tracked' \subseteq used' /\ \A w \in Vms \ used' : Untouched(w)'
      BY <1>1, <1>13, <1>14 DEF TrackInv, TodoInv, TypeOK, OpType
    <3>2. answer'.guest.state = g.state /\ r.vm = op.vm /\ r.kind = RequestKind /\ op' = op
      BY <1>1, <1>2, <1>4, <2>3
    <3>3. CASE Deletes
      <4>1. r.kind = "delete"
        BY <3>2, <3>3 DEF Deletes, RequestKind
      <4>2. \A i \in DOMAIN queue'[h] :
              ~(queue'[h][i].vm = op.vm /\ queue'[h][i].kind = "create")
        BY <1>4, <1>6, <3>2, <4>1
      <4>3. guest'[op.vm].state = "absent" /\ Home[op.vm] = h
        BY <1>2, <1>3, <1>5, <1>7, <2>3, <3>2, <4>1
      <4> QED BY <3>1, <3>2, <3>3, <4>2, <4>3 DEF TodoInv, Deletes, Ordered
    <3>4. CASE ~Deletes
      <4>1. op.kind \in {"create", "resize"} => answer'.guest.state # "absent"
        BY <1>5, <2>3, <3>2, <3>4 DEF Deletes, RequestKind
      <4> QED BY <3>1, <3>2, <3>4, <4>1 DEF TodoInv, Deletes
    <3> QED BY <3>3, <3>4
  <2> QED BY <2>1, <2>2, <2>3
<1> QED BY <1>11, <1>12, <1>14, <1>15 DEF TrackInv

LEMMA WorkOnTracks ==
  ASSUME TypeOK, TypeOK', TrackInv, NEW h \in Hosts, Waiting(h), NEW g \in Guest, WorkOn(h, g),
         g.state = InHand(First(h).kind),
         g.state # "absent" => guest[First(h).vm].state # "absent" \/ First(h).kind = "create"
  PROVE  TrackInv'
<1> USE DEF database, history, process
<1> DEFINE r == First(h)
<1>1. queue[h] # <<>> /\ queue[h] \in Seq(Request)
  BY DEF Waiting, TypeOK
<1>2. /\ 1 \in DOMAIN queue[h] /\ r = queue[h][1] /\ r \in Request /\ Home[r.vm] = h
      /\ r.vm \in used /\ Queued(r.vm) /\ r.vm \in Vms
      /\ r.kind = "create" => Ordered(h, r.vm)
  BY <1>1, FirstTracks DEF TypeOK
<1>3. /\ guest' = [guest EXCEPT ![r.vm] = g]
      /\ queue' = [queue EXCEPT ![h] = [queue[h] EXCEPT ![1] = [r EXCEPT !.begun = TRUE]]]
      /\ UNCHANGED <<vms, op, answer, reads, look, used, orphans>>
  BY <1>2 DEF WorkOn
<1>4. g.state = InHand(r.kind)
      /\ (g.state # "absent" => guest[r.vm].state # "absent" \/ r.kind = "create")
  OBVIOUS
<1> HIDE DEF r
<1>5. /\ [r EXCEPT !.begun = TRUE].vm = r.vm /\ [r EXCEPT !.begun = TRUE].kind = r.kind
      /\ [r EXCEPT !.begun = TRUE].waited = r.waited
  BY <1>2 DEF Request
<1>6. /\ \A k \in Hosts \ {h} : queue'[k] = queue[k]
      /\ \A k \in Hosts : DOMAIN queue'[k] = DOMAIN queue[k]
      /\ \A i \in DOMAIN queue[h] : i # 1 => queue'[h][i] = queue[h][i]
      /\ queue'[h][1] = [r EXCEPT !.begun = TRUE]
  BY <1>1, <1>2, <1>3 DEF TypeOK
<1>7. ASSUME NEW k \in Hosts, NEW i \in DOMAIN queue[k]
      PROVE  /\ queue'[k][i].vm = queue[k][i].vm /\ queue'[k][i].kind = queue[k][i].kind
             /\ queue'[k][i].waited = queue[k][i].waited
  BY <1>2, <1>5, <1>6
<1>8. guest'[r.vm] = g /\ \A w \in Vms \ {r.vm} : guest'[w] = guest[w]
  BY <1>2, <1>3 DEF TypeOK
<1>9. \A w \in Vms : Home[w] \in Hosts
  BY FleetAssumption
<1>10. \A w \in Vms : Queued(w)' => Queued(w)
  BY <1>6, <1>7, <1>9 DEF Queued
<1>11. \A w \in Vms : Ordered(Home[w], w)' => Ordered(Home[w], w)
  BY <1>6, <1>7, <1>9 DEF Ordered
<1>12. QueueInv'
  <2>1. RequestKind' = RequestKind
    BY <1>3 DEF RequestKind
  <2>2. ASSUME NEW k \in Hosts, NEW i \in DOMAIN queue'[k], queue'[k][i].begun
        PROVE  i = 1 /\ guest'[queue'[k][i].vm].state = InHand(queue'[k][i].kind)
    <3>1. CASE k = h /\ i = 1
      BY <1>2, <1>4, <1>5, <1>6, <1>8, <3>1
    <3>2. CASE k = h /\ i # 1
      BY <1>6, <2>2, <3>2 DEF TrackInv, QueueInv
    <3>3. CASE k # h
      <4>1. i \in DOMAIN queue[k] /\ queue[k] \in Seq(Request) /\ queue'[k][i] = queue[k][i]
        BY <1>6, <3>3 DEF TypeOK
      <4>2. queue[k][i].vm \in Vms /\ queue[k][i].vm # r.vm
        <5>1. queue[k][i] \in Request
          BY <4>1
        <5> QED BY <1>2, <3>3, <4>1, <5>1 DEF Request, TrackInv, QueueInv
      <4> QED BY <1>8, <2>2, <4>1, <4>2 DEF TrackInv, QueueInv
    <3> QED BY <3>1, <3>2, <3>3
  <2>3. ASSUME NEW k \in Hosts, NEW i \in DOMAIN queue'[k]
        PROVE  /\ Home[queue'[k][i].vm] = k
               /\ queue'[k][i].kind = "create" =>
                    \A j \in DOMAIN queue'[k] : j < i => queue'[k][j].vm # queue'[k][i].vm
               /\ queue'[k][i].waited =>
                    /\ op'.step = "wait" /\ answer'.is = "none" /\ queue'[k][i].vm = op'.vm
                    /\ queue'[k][i].kind = RequestKind'
                    /\ \A j \in DOMAIN queue'[k] : queue'[k][j].waited => j = i
    BY <1>3, <1>6, <1>7, <2>1 DEF TrackInv, QueueInv
  <2> QED BY <2>2, <2>3 DEF QueueInv
<1>13. StepInv'
  BY <1>3 DEF TrackInv, StepInv, Row0, Tracked
<1>14. Tracked' = Tracked
  BY <1>3 DEF Tracked
<1>15. VmsTracked' /\ TodoInv'
  <2>1. guest'[r.vm].state # "absent" => guest[r.vm].state # "absent" \/ Ordered(Home[r.vm], r.vm)
    BY <1>2, <1>4, <1>8
  <2>2. ~Untouched(r.vm)
    BY <1>2 DEF Untouched
  <2> QED BY <1>2, <1>3, <1>8, <1>10, <1>11, <1>14, <2>1, <2>2, GuestTracks
<1> QED BY <1>12, <1>13, <1>15 DEF TrackInv

LEMMA AgentsTrack ==
  ASSUME TypeOK, TypeOK', TrackInv, NEW h \in Hosts, Serve(h)
  PROVE  TrackInv'
<1> DEFINE r == First(h)
           g == guest[r.vm]
<1>1. queue[h] # <<>>
  BY Zenon DEF Serve, Reject, Acknowledge, Undertake, TurnDown, StopGuest, Complete, Fail,
               Serves, Waiting, Working
<1>2. r \in Request /\ g \in Guest
  BY <1>1, FirstType
<1>3. r.begun => g.state = InHand(r.kind)
  BY <1>1, FirstTracks
<1>4. ASSUME NEW is \in {"ok", "refused", "error"}, NEW new \in Guest, Reply(h, is, new),
             new.state # "absent" => g.state # "absent" \/ r.kind = "create",
             is = "ok" /\ r.kind = "delete" => new.state = "absent",
             is = "ok" /\ r.kind \in {"create", "resize"} => new.state # "absent"
      PROVE  TrackInv'
  BY <1>1, <1>4, ReplyTracks
<1>5. ASSUME NEW new \in Guest, Waiting(h), WorkOn(h, new), new.state = InHand(r.kind),
             g.state # "absent" \/ r.kind = "create"
      PROVE  TrackInv'
  BY <1>5, WorkOnTracks
<1> HIDE DEF r, g
<1>6. ASSUME Reject(h) PROVE TrackInv'
  <2>1. PICK is \in {"refused", "error"} : Reply(h, is, g)
    BY <1>6, Zenon DEF Reject, r, g
  <2> QED BY <1>2, <1>4, <2>1
<1>7. ASSUME Acknowledge(h) PROVE TrackInv'
  <2>1. Reply(h, "ok", g) /\ Satisfied(r, g)
    BY <1>7 DEF Acknowledge, r, g
  <2>2. /\ r.kind = "delete" => g.state = "absent"
        /\ r.kind \in {"create", "resize"} => g.state # "absent"
    BY <2>1 DEF Satisfied
  <2> QED BY <1>2, <1>4, <2>1, <2>2
<1>8. ASSUME TurnDown(h) PROVE TrackInv'
  <2>1. PICK is \in {"refused", "error"} : Reply(h, is, g)
    BY <1>8, Zenon DEF TurnDown, r, g
  <2> QED BY <1>2, <1>4, <2>1
<1>9. ASSUME Undertake(h) PROVE TrackInv'
  <2>1. /\ Waiting(h) /\ ~Rejects(r, g) /\ ~Satisfied(r, g)
        /\ \/ r.kind \in {"create", "start"} /\ WorkOn(h, [g EXCEPT !.state = "creating"])
           \/ r.kind = "delete" /\ WorkOn(h, [g EXCEPT !.state = "deleting"])
           \/ r.kind = "resize" /\ WorkOn(h, [g EXCEPT !.pending = r.target, !.error = TRUE])
    BY <1>9, Zenon DEF Undertake, Serves, r, g
  <2>2. /\ [g EXCEPT !.state = "creating"] \in Guest
        /\ [g EXCEPT !.state = "deleting"] \in Guest
        /\ [g EXCEPT !.pending = r.target, !.error = TRUE] \in Guest
    BY <1>2 DEF Guest, States, Request
  <2>3. /\ [g EXCEPT !.state = "creating"].state = "creating"
        /\ [g EXCEPT !.state = "deleting"].state = "deleting"
        /\ [g EXCEPT !.pending = r.target, !.error = TRUE].state = g.state
    BY <1>2 DEF Guest
  <2>4. g.state # "absent" \/ r.kind = "create"
    BY <2>1 DEF Rejects, Satisfied
  <2>5. r.kind = "resize" => g.state = "stopped"
    BY <2>1 DEF Rejects
  <2>6. CASE r.kind \in {"create", "start"} /\ WorkOn(h, [g EXCEPT !.state = "creating"])
    BY <1>5, <2>1, <2>2, <2>3, <2>4, <2>6 DEF InHand
  <2>7. CASE r.kind = "delete" /\ WorkOn(h, [g EXCEPT !.state = "deleting"])
    BY <1>5, <2>1, <2>2, <2>3, <2>4, <2>7 DEF InHand
  <2>8. CASE r.kind = "resize" /\ WorkOn(h, [g EXCEPT !.pending = r.target, !.error = TRUE])
    BY <1>5, <2>1, <2>2, <2>3, <2>4, <2>5, <2>8 DEF InHand
  <2> QED BY <2>1, <2>6, <2>7, <2>8
<1>10. ASSUME StopGuest(h) PROVE TrackInv'
  <2>1. /\ Reply(h, "ok", [g EXCEPT !.state = "stopped", !.error = FALSE])
        /\ r.kind = "stop" /\ g.state # "absent"
    BY <1>10 DEF StopGuest, Serves, Rejects, r, g
  <2>2. [g EXCEPT !.state = "stopped", !.error = FALSE] \in Guest
    BY <1>2 DEF Guest, States
  <2> QED BY <1>4, <2>1, <2>2
<1>11. ASSUME Complete(h) PROVE TrackInv'
  <2>1. r.begun /\ g.state = InHand(r.kind)
    BY <1>3, <1>11 DEF Complete, Working, r
  <2>2. CASE /\ r.kind \in {"create", "start"}
             /\ Reply(h, "ok", [g EXCEPT !.state = "running", !.error = FALSE])
    <3>1. [g EXCEPT !.state = "running", !.error = FALSE] \in Guest
          /\ [g EXCEPT !.state = "running", !.error = FALSE].state = "running"
      BY <1>2 DEF Guest, States
    <3>2. g.state # "absent"
      BY <2>1, <2>2 DEF InHand
    <3> QED BY <1>4, <2>2, <3>1, <3>2
  <2>3. CASE r.kind = "delete" /\ Reply(h, "ok", [NoGuest EXCEPT !.served = g.served])
    <3>1. [NoGuest EXCEPT !.served = g.served] \in Guest
          /\ [NoGuest EXCEPT !.served = g.served].state = "absent"
      BY <1>2, NullGuests DEF Guest, NoGuest
    <3> QED BY <1>4, <2>3, <3>1
  <2>4. CASE /\ r.kind = "resize"
             /\ Reply(h, "ok", [g EXCEPT !.size = r.target, !.pending = 0, !.error = FALSE])
    <3>1. [g EXCEPT !.size = r.target, !.pending = 0, !.error = FALSE] \in Guest
          /\ [g EXCEPT !.size = r.target, !.pending = 0, !.error = FALSE].state = g.state
      BY <1>2 DEF Guest, Request
    <3>2. g.state = "stopped"
      BY <2>1, <2>4 DEF InHand
    <3> QED BY <1>4, <2>4, <3>1, <3>2
  <2> QED BY <1>11, <2>2, <2>3, <2>4, Zenon DEF Complete, r, g
<1>12. ASSUME Fail(h) PROVE TrackInv'
  <2> DEFINE new == [g EXCEPT !.error = TRUE,
                       !.state = IF r.kind \in {"create", "start"} THEN "failed" ELSE @]
  <2>1. Reply(h, "error", new) /\ (r.begun \/ (r.kind = "stop" /\ ~Rejects(r, g)))
    BY <1>12, Zenon DEF Fail, Working, Serves, r, g
  <2>2. new \in Guest
        /\ (r.kind \notin {"create", "start"} => new.state = g.state)
    BY <1>2 DEF Guest, States
  <2> HIDE DEF new
  <2>3. r.kind = "start" => g.state # "absent"
    BY <1>3, <2>1 DEF InHand, r, g
  <2> QED BY <1>4, <2>1, <2>2, <2>3
<1> QED BY <1>6, <1>7, <1>8, <1>9, <1>10, <1>11, <1>12, Zenon DEF Serve

LEMMA RestTracks ==
  ASSUME TypeOK, TypeOK', TrackInv,
         \/ \E v \in Vms : AgentLoop(v) \/ Revives(v) \/ GuestEnds(v)
         \/ \E h \in Hosts : CrashAgent(h)
         \/ CrashController \/ Lapse \/ Elsewhere
  PROVE  TrackInv'
<1> USE DEF database, agents, history, process
<1>1. ASSUME NEW v \in Vms, AgentLoop(v) \/ Revives(v) \/ GuestEnds(v) PROVE TrackInv'
  <2>1. /\ ~Working(Home[v]) /\ guest[v].state # "absent"
        /\ \A w \in Vms \ {v} : guest'[w] = guest[w]
        /\ UNCHANGED <<vms, op, answer, reads, look, queue, used, orphans>>
    BY <1>1 DEF AgentLoop, Reconcile, ResumeDelete, Revives, GuestEnds, TypeOK
  <2>2. Tracked' = Tracked
    BY <2>1 DEF Tracked
  <2>3. v \in used /\ ~Untouched(v)
    BY <2>1 DEF TrackInv, TodoInv, Untouched
  <2>4. ASSUME NEW h \in Hosts, NEW i \in DOMAIN queue[h], queue[h][i].begun
        PROVE  queue[h][i].vm \in Vms \ {v}
    <3>1. queue[h] \in Seq(Request) /\ queue[h] # <<>> /\ i = 1 /\ Home[queue[h][i].vm] = h
      BY <2>4 DEF TypeOK, TrackInv, QueueInv
    <3>2. First(h) = queue[h][i] /\ queue[h][i].vm \in Vms
      BY <3>1, FirstType
    <3>3. Working(h)
      BY <2>4, <3>1, <3>2 DEF Working
    <3> QED BY <2>1, <3>1, <3>2, <3>3
  <2>5. QueueInv'
    BY <2>1, <2>4 DEF TrackInv, QueueInv, RequestKind
  <2>6. StepInv'
    BY <2>1, <2>2 DEF TrackInv, StepInv, Row0
  <2>7. (\A w \in Vms : Queued(w)' => Queued(w))
        /\ (\A w \in Vms : Ordered(Home[w], w)' => Ordered(Home[w], w))
    BY <2>1 DEF Queued, Ordered
  <2>8. VmsTracked' /\ TodoInv'
    BY <2>1, <2>2, <2>3, <2>7, GuestTracks
  <2> QED BY <2>5, <2>6, <2>8 DEF TrackInv
<1>2. ASSUME NEW h \in Hosts, CrashAgent(h) PROVE TrackInv'
  <2>1. /\ queue' = [queue EXCEPT ![h] = <<>>]
        /\ answer' = IF \E i \in DOMAIN queue[h] : queue[h][i].waited
                     THEN [NoAnswer EXCEPT !.is = "error"] ELSE answer
        /\ UNCHANGED <<vms, op, reads, look, guest, used, orphans>>
    BY <1>2, Zenon DEF CrashAgent
  <2>2. /\ \A k \in Hosts \ {h} : queue'[k] = queue[k]
        /\ DOMAIN queue'[h] = {}
    BY <2>1 DEF TypeOK
  <2>3. \A k \in Hosts \ {h} : \A i \in DOMAIN queue[k] : queue[k][i].waited => answer' = answer
    BY <2>1 DEF TrackInv, QueueInv
  <2>4. QueueInv'
    BY <2>1, <2>2, <2>3 DEF TrackInv, QueueInv, RequestKind
  <2>5. answer' = answer \/ (answer'.is = "error" /\ op.step = "wait")
    BY <2>1 DEF TrackInv, QueueInv, NoAnswer
  <2>6. Tracked' = Tracked
    BY <2>1 DEF Tracked
  <2>7. StepInv'
    BY <2>1, <2>5, <2>6 DEF TrackInv, StepInv, Row0
  <2>8. \A w \in Vms : Home[w] \in Hosts
    BY FleetAssumption
  <2>9. \A w \in Vms : Queued(w)' => Queued(w)
    BY <2>2, <2>8 DEF Queued
  <2>10. \A w \in Vms : Ordered(Home[w], w)' => Ordered(Home[w], w)
    BY <2>2, <2>8 DEF Ordered
  <2>11. VmsTracked'
    BY <2>1, <2>6, <2>10 DEF TrackInv, VmsTracked
  <2>12. TodoInv'
    <3>1. \A w \in Vms : Untouched(w) => Untouched(w)'
      BY <2>1, <2>9 DEF Untouched
    <3>2. CASE answer'.is = "error"
      BY <2>1, <2>6, <3>1, <3>2 DEF TrackInv, TodoInv, TypeOK, OpType
    <3>3. CASE answer' = answer /\ op.step # "wait"
      BY <2>1, <2>6, <3>1, <3>3 DEF TrackInv, TodoInv, TypeOK, OpType
    <3>4. CASE answer' = answer /\ op.step = "wait"
      <4>1. op.vm \in Vms
        BY <3>4 DEF TrackInv, StepInv, TypeOK
      <4>2. \A w \in Vms : ~Ordered(Home[w], w) =>
              ~ \E i \in DOMAIN queue'[Home[w]] :
                  queue'[Home[w]][i].vm = w /\ queue'[Home[w]][i].kind = "create"
        BY <2>10 DEF Ordered
      <4> QED BY <2>1, <2>6, <3>1, <3>4, <4>1, <4>2
              DEF TrackInv, TodoInv, TypeOK, OpType, Deletes, Ordered
    <3> QED BY <2>5, <3>2, <3>3, <3>4
  <2> QED BY <2>4, <2>7, <2>11, <2>12 DEF TrackInv
<1>3. ASSUME CrashController PROVE TrackInv'
  <2>1. /\ op'.step = "none" /\ op'.kind = "none" /\ op'.todo = {} /\ answer'.is = "none"
        /\ look' = NoLook /\ reads'[Own].step = "idle"
        /\ guest' = guest /\ used' = used /\ orphans' = orphans /\ Tracked' = Tracked
    BY <1>3 DEF CrashController, NoOp, NoAnswer, NoRead, Readers, Tracked
  <2>2. /\ QueueInv'
        /\ \A v \in Vms : Queued(v)' <=> Queued(v)
        /\ \A v \in Vms : Ordered(Home[v], v)' <=> Ordered(Home[v], v)
    BY <1>3, AbandonedTracks DEF CrashController
  <2>3. StepInv'
    BY <2>1 DEF StepInv
  <2>4. \A v \in Vms : Untouched(v) => Untouched(v)'
    BY <2>1, <2>2 DEF Untouched
  <2>5. TodoInv'
    BY <2>1, <2>4 DEF TrackInv, TodoInv
  <2>6. VmsTracked'
    BY <2>1, <2>2 DEF TrackInv, VmsTracked
  <2> QED BY <2>2, <2>3, <2>5, <2>6 DEF TrackInv
<1>4. ASSUME Lapse PROVE TrackInv'
  BY <1>4, FrameTracks DEF Lapse, Tracked
<1>5. ASSUME Elsewhere PROVE TrackInv'
  BY <1>5, FrameTracks, BumpKeeps DEF Elsewhere, Tracked
<1> QED BY <1>1, <1>2, <1>3, <1>4, <1>5

LEMMA TrackStep ==
  ASSUME TypeOK, TrackInv, [Next]_vars
  PROVE  TrackInv'
<1>1. TypeOK'
  BY TypeStep
<1>2. CASE UNCHANGED vars
  BY <1>2, FrameTracks DEF vars, database, process, agents, history, Tracked
<1>3. CASE Next
  BY <1>1, <1>3, BeginsTrack, PlansTrack, SendTracks, SendsTrack, TakesTrack, ReadsTrack,
     HostsTrack, AgentsTrack, RestTracks, Zenon DEF Next, Client, OperationStep, Faults, Read
<1> QED BY <1>2, <1>3

(***************************************************************************)
(* The controller's view.  Steps that leave the agents alone.              *)
(***************************************************************************)
LEMMA GuestNumbers ==
  ASSUME TypeOK, NEW v \in Vms
  PROVE  /\ guest[v] \in Guest /\ guest[v].served \in Nat
         /\ guest[v].size \in Nat /\ guest[v].pending \in Nat
         /\ vms[v] \in Row /\ vms[v].confirmed \in Nat /\ vms[v].pending \in Nat
         /\ vms[v].fresh \in BOOLEAN
         /\ op.saved[v] \in Row /\ op.saved[v].confirmed \in Nat /\ op.saved[v].pending \in Nat
         /\ op.saved[v].fresh \in BOOLEAN
<1>1. guest[v] \in Guest /\ vms[v] \in Row /\ op.saved[v] \in Row
  BY DEF TypeOK, OpType
<1>2. \A s \in Sizes \union {0} : s \in Nat
  BY LeastType
<1>3. ASSUME NEW g \in Guest PROVE g.served \in Nat /\ g.size \in Nat /\ g.pending \in Nat
  BY <1>2 DEF Guest
<1>4. ASSUME NEW r \in Row PROVE r.confirmed \in Nat /\ r.pending \in Nat /\ r.fresh \in BOOLEAN
  BY <1>2 DEF Row
<1> QED BY <1>1, <1>3, <1>4

\* What is said of queues and guests only.
LEMMA AgentsAlone ==
  ASSUME UNCHANGED <<queue, guest>>
  PROVE  /\ \A v \in Vms : \A p : OnRecord(v, p)' <=> OnRecord(v, p)
         /\ \A v \in Vms : (Unborn(v)' <=> Unborn(v)) /\ (Queued(v)' <=> Queued(v))
         /\ \A v \in Vms : Alone(v)' <=> Alone(v)
         /\ GuestInv' <=> GuestInv
BY DEF OnRecord, Carries, Unborn, Queued, Alone, Only, GuestInv

\* What refreshes have heard, when neither they nor what they heard of has changed.
LEMMA HeardSame ==
  ASSUME ReadInv, UNCHANGED <<vms, op, queue, guest, reads>>
  PROVE  ReadInv'
<1>1. /\ \A x \in Readers : Current(x)' <=> Current(x)
      /\ \A x \in Readers : \A v \in Vms : Heard(x, v)' <=> Heard(x, v)
      /\ \A x \in Readers : \A v \in Vms : Told(x, v)' = Told(x, v)
      /\ \A v \in Vms : Unborn(v)' <=> Unborn(v)
      /\ Tracked' = Tracked
  BY DEF Heard, Told, Current, Touches, Busy, Unborn, Tracked
<1>2. Tracked \subseteq Vms
  BY DEF Tracked
<1> QED BY <1>1, <1>2 DEF ReadInv

LEMMA Bumped ==
  ASSUME TypeOK, ReadInv, Bump
  PROVE  ReadInv'
<1>1. \A r \in Readers : ~reads'[r].current
  BY DEF Bump, TypeOK, ReadType
<1> QED BY <1>1 DEF ReadInv, Heard, Current

\* While the operation neither surveys nor refreshes, no refresh may touch the rows.
LEMMA NobodyHeard ==
  ASSUME TrackInv, ReadInv, TypeOK, Busy, op.step \notin {"survey", "refresh"},
         NEW r \in Readers, NEW v \in Vms
  PROVE  ~Heard(r, v)
BY DEF TrackInv, StepInv, ReadInv, Heard, Current, Touches, TypeOK, ReadType, Readers

LEMMA StillNobody ==
  ASSUME TrackInv, ReadInv, TypeOK, Busy, op.step \notin {"survey", "refresh"},
         op'.kind # "none", UNCHANGED reads
  PROVE  ReadInv'
<1>1. \A r \in Readers, v \in Vms : ~Heard(r, v)'
  BY DEF TrackInv, StepInv, ReadInv, Heard, Current, Touches, Busy, TypeOK, ReadType, Readers
<1>2. \A v \in Tracked' : v \in Vms
  BY DEF Tracked
<1> QED BY <1>1, <1>2 DEF ReadInv, Current

\* The inspections that the invariant leaves out.
LEMMA NothingLooked ==
  ASSUME MaxInspections = 0, NoLooks, [Next]_vars
  PROVE  /\ NoLooks' /\ ~Retain /\ \A v \in Vms : ~Inspect(v)
<1>1. ~Retain /\ \A v \in Vms : ~Inspect(v)
  BY DEF NoLooks, Retain, Inspect, May
<1>2. CASE UNCHANGED vars
  BY <1>1, <1>2 DEF vars, process, bounds, NoLooks
<1>3. CASE Next
  <2> USE DEF NoLooks, database, process, agents, history, bounds
  <2> SUFFICES UNCHANGED <<look, looked>>
    BY <1>1
  <2>1. CASE Client
    BY <2>1 DEF Client, BeginCreate, BeginDelete, BeginStop, BeginStart, BeginResize, Begin
  <2>2. CASE OperationStep
    BY <2>2 DEF OperationStep, Reserve, Plan, Ask, SendsDone, Conclude, TakeCreated, TakeDeleted,
                TakeChanged, TakeResized, Send, SkipHost, Continue
  <2>3. CASE Sweep \/ BeginExpire \/ Lapse
    BY <2>3 DEF Sweep, BeginExpire, Lapse
  <2>4. CASE Faults
    BY <2>4 DEF Faults, Timeout, CrashController, Elsewhere, SendFails, GuestEnds, Revives,
                CrashAgent, FetchFails
  <2>5. CASE \E r \in Readers : Read(r)
    BY <2>5 DEF Read, StartRead, EndRead, Fetch, Apply
  <2>6. CASE \E v \in Vms : AgentLoop(v)
    BY <2>6 DEF AgentLoop, Reconcile, ResumeDelete
  <2>7. CASE \E h \in Hosts : Register(h) \/ Remove(h) \/ Detach(h)
    BY <2>7 DEF Register, Remove, Detach
  <2>8. CASE \E h \in Hosts : Serve(h)
    BY <2>8 DEF Serve, Reject, Acknowledge, Undertake, TurnDown, StopGuest, Complete, Fail,
                Reply, WorkOn
  <2> QED BY <1>1, <1>3, <2>1, <2>2, <2>3, <2>4, <2>5, <2>6, <2>7, <2>8 DEF Next
<1> QED BY <1>1, <1>2, <1>3

\* Steps that change no row, request, guest or answer, and keep what the refreshes heard.
LEMMA FrameView ==
  ASSUME TypeOK, TrackInv, ViewInv, NoLooks', ReadInv',
         UNCHANGED <<vms, op, answer, queue, guest>>
  PROVE  ViewInv'
<1>1. RowInv'
  BY AgentsAlone DEF ViewInv, RowInv, Tracked
<1>2. AnswerInv'
  BY AgentsAlone DEF ViewInv, AnswerInv, TrackInv, StepInv, TypeOK
<1>3. SavedInv'
  <2>1. op.todo \subseteq Vms /\ (op.step = "wait" => op.vm \in Vms)
    BY DEF TypeOK, OpType, TrackInv, StepInv
  <2> QED BY <2>1, AgentsAlone DEF ViewInv, SavedInv, Row0
<1> QED BY <1>1, <1>2, <1>3, AgentsAlone DEF ViewInv

\* A new operation, or the end of one.
\* Steps that move the revision and change only the operation.
LEMMA QuietView ==
  ASSUME TypeOK, ViewInv, NoLooks', UNCHANGED <<vms, queue, guest>>, Bump,
         op'.step # "wait", SavedInv'
  PROVE  ViewInv'
<1>1. RowInv'
  BY AgentsAlone DEF ViewInv, RowInv, Tracked
<1>2. AnswerInv'
  BY DEF AnswerInv
<1>3. ReadInv'
  BY Bumped DEF ViewInv
<1> QED BY <1>1, <1>2, <1>3, AgentsAlone DEF ViewInv

LEMMA NothingSaved ==
  ASSUME op'.saved = NoRows, op'.step # "wait",
         op'.kind \in {"start", "stop", "resize"} \/ op'.step \in {"survey", "refresh"} =>
           op'.todo = {}
  PROVE  SavedInv'
<1>1. \A v \in Vms : ~Row0(v)'
  BY DEF Row0, NoRows, NoRow, Planned
<1> QED BY <1>1 DEF SavedInv

\* An operation that begins with the rows as they are may write them back.
LEMMA RowsSaved ==
  ASSUME TypeOK, ViewInv, UNCHANGED <<vms, queue, guest>>,
         op'.saved = vms, op'.step \notin {"wait", "survey", "refresh"}, op'.todo \subseteq Tracked,
         op'.kind \in {"start", "stop"}
  PROVE  SavedInv'
<1>1. \A v \in Vms : Row0(v)' <=> v \in Tracked
  BY DEF Row0, Tracked
<1>2. \A v \in Tracked : v \in Vms
  BY DEF Tracked
<1>3. \A v \in Tracked : OnRecord(v, op.saved[v].pending)'
  BY <1>2, AgentsAlone DEF ViewInv, RowInv
<1> QED BY <1>1, <1>2, <1>3 DEF ViewInv, RowInv, SavedInv

LEMMA BeginsView ==
  ASSUME TypeOK, TypeOK', TrackInv, ViewInv, NoLooks',
         \/ BeginCreate \/ BeginDelete \/ BeginStop \/ BeginStart
         \/ \E v \in Vms, t \in Sizes : BeginResize(v, t)
         \/ Sweep \/ BeginExpire
  PROVE  ViewInv'
<1> USE DEF database, agents, history, process
<1>1. ASSUME BeginCreate PROVE ViewInv'
  BY <1>1, QuietView, NothingSaved DEF BeginCreate, Begin, NoOp
<1>2. ASSUME BeginDelete PROVE ViewInv'
  BY <1>2, QuietView, NothingSaved DEF BeginDelete, Begin, StartsDeleting, NoOp
<1>3. ASSUME BeginStop PROVE ViewInv'
  BY <1>3, QuietView, RowsSaved DEF BeginStop, Begin, NoOp
<1>4. ASSUME BeginStart PROVE ViewInv'
  BY <1>4, QuietView, RowsSaved DEF BeginStart, Begin, NoOp
<1>5. ASSUME NEW v \in Vms, NEW t \in Sizes, BeginResize(v, t) PROVE ViewInv'
  BY <1>5, QuietView, NothingSaved DEF BeginResize, Begin, NoOp
<1>6. ASSUME Sweep PROVE ViewInv'
  <2>1. ReadInv'
    BY <1>6, HeardSame DEF Sweep, ViewInv
  <2> QED BY <1>6, <2>1, FrameView DEF Sweep
<1>7. ASSUME BeginExpire PROVE ViewInv'
  <2>1. CASE Busy /\ UNCHANGED <<env, op, reads>>
    <3>1. ReadInv'
      BY <1>7, <2>1, HeardSame DEF BeginExpire, ViewInv
    <3> QED BY <1>7, <2>1, <3>1, FrameView DEF BeginExpire
  <2>2. CASE Bump /\ UNCHANGED <<env, op>>
    BY <1>7, <2>2, Bumped, FrameView DEF BeginExpire, ViewInv
  <2>3. CASE Bump /\ StartsDeleting("expire")
    BY <1>7, <2>3, QuietView, NothingSaved DEF BeginExpire, StartsDeleting, NoOp
  <2> QED BY <1>7, <2>1, <2>2, <2>3 DEF BeginExpire
<1> QED BY <1>1, <1>2, <1>3, <1>4, <1>5, <1>6, <1>7

\* Nothing is to be recorded of a VM its agent does not know, and 0 fits only such a VM.
LEMMA RecordOfUnknown ==
  ASSUME TypeOK, ViewInv, NEW v \in Vms, Untouched(v), NEW p
  PROVE  OnRecord(v, p)
BY DEF ViewInv, GuestInv, OnRecord, Untouched, Queued, Carries

\* A row without a pending resize may name any target.
LEMMA RecordOfAny ==
  ASSUME TypeOK, NEW v \in Vms, OnRecord(v, 0), NEW p
  PROVE  OnRecord(v, p)
<1>1. Home[v] \in Hosts /\ guest[v].size \in Nat
  BY GuestNumbers, FleetAssumption
<1>2. ASSUME NEW i \in DOMAIN queue[Home[v]] PROVE ~Carries(queue[Home[v]][i], v)
  <2>1. queue[Home[v]][i] \in Request
    BY <1>1, <1>2 DEF TypeOK
  <2>2. queue[Home[v]][i].target \in Nat \ {0}
    BY <2>1, FleetAssumption DEF Request
  <2> QED BY <2>2, <1>2 DEF OnRecord
<1>3. guest[v].pending = 0
  BY DEF OnRecord
<1> QED BY <1>2, <1>3 DEF OnRecord

LEMMA PlansView ==
  ASSUME TypeOK, TypeOK', TrackInv, ViewInv, NoLooks', Plan \/ Ask \/ Reserve \/ Conclude
  PROVE  ViewInv'
<1> USE DEF agents, history
<1>1. ASSUME Drop, UNCHANGED <<vms, queue, guest>> PROVE ViewInv'
  BY <1>1, QuietView, NothingSaved DEF Drop, NoOp
<1>2. ASSUME NEW new \in Placements, op.step = "plan", Bump,
             vms' = [v \in Vms |-> IF v \in new THEN Planned ELSE vms[v]],
             op' = [op EXCEPT !.step = "send", !.todo = new],
             UNCHANGED <<queue, guest>>
      PROVE  ViewInv'
  <2>1. op'.kind = "create" /\ op'.step = "send" /\ op'.saved = op.saved
    BY <1>2 DEF TrackInv, StepInv, TypeOK, OpType
  <2>2. ReadInv' /\ GuestInv'
    BY <1>2, Bumped, AgentsAlone DEF ViewInv
  <2>3. AnswerInv' /\ SavedInv'
    BY <1>2, <2>1 DEF ViewInv, AnswerInv, SavedInv, Row0
  <2>4. RowInv'
    <3> SUFFICES ASSUME NEW v \in Vms, vms'[v].state # "untracked"
                 PROVE  /\ vms'[v].fresh /\ vms'[v].confirmed <= guest[v].served
                        /\ OnRecord(v, vms'[v].pending)
      BY <1>2, AgentsAlone DEF RowInv, Tracked
    <3>1. CASE v \in new
      <4>1. Untouched(v)
        BY <3>1 DEF Placements, TrackInv, TodoInv
      <4>2. vms'[v] = Planned
        BY <1>2, <3>1
      <4> QED BY <4>1, <4>2, RecordOfUnknown, GuestNumbers DEF Planned
    <3>2. CASE v \notin new
      BY <1>2, <3>2 DEF ViewInv, RowInv, Tracked
    <3> QED BY <3>1, <3>2
  <2> QED BY <2>2, <2>3, <2>4 DEF ViewInv
<1>3. ASSUME Plan PROVE ViewInv'
  BY <1>1, <1>2, <1>3, Zenon DEF Plan
<1>4. ASSUME op.step = "ask", MayResize, Bump,
             UNCHANGED <<queue, guest>>,
             vms' = [vms EXCEPT ![op.vm] = [@ EXCEPT !.pending = op.target, !.error = TRUE]],
             op' = [op EXCEPT !.step = "send", !.todo = {op.vm}, !.saved = vms]
      PROVE  ViewInv'
  <2>1. /\ op.vm \in Tracked /\ op.vm \in Vms /\ op.kind = "resize"
        /\ vms[op.vm].pending \in {0, op.target}
    BY <1>4 DEF MayResize, TrackInv, StepInv
  <2>2. /\ op'.kind = "resize" /\ op'.step = "send" /\ op'.todo = {op.vm}
        /\ op'.saved = vms /\ op'.target = op.target
    BY <1>4, <2>1 DEF TypeOK, OpType
  <2>3. vms' = [vms EXCEPT ![op.vm] = [vms[op.vm] EXCEPT !.pending = op.target, !.error = TRUE]]
    BY <1>4
  <2>4. vms[op.vm] \in Row
    BY <2>1, GuestNumbers
  <2>5. ASSUME NEW r \in Row
        PROVE  /\ [r EXCEPT !.pending = op.target, !.error = TRUE].pending = op.target
               /\ [r EXCEPT !.pending = op.target, !.error = TRUE].fresh = r.fresh
               /\ [r EXCEPT !.pending = op.target, !.error = TRUE].confirmed = r.confirmed
               /\ [r EXCEPT !.pending = op.target, !.error = TRUE].state = r.state
    BY DEF Row
  <2>6. /\ vms'[op.vm].pending = op.target /\ vms'[op.vm].fresh = vms[op.vm].fresh
        /\ vms'[op.vm].confirmed = vms[op.vm].confirmed
        /\ vms'[op.vm].state = vms[op.vm].state
        /\ \A v \in Vms \ {op.vm} : vms'[v] = vms[v]
    BY <2>1, <2>3, <2>4, <2>5 DEF TypeOK
  <2>7. ReadInv' /\ GuestInv' /\ AnswerInv'
    BY <1>4, <2>2, Bumped, AgentsAlone DEF ViewInv, AnswerInv
  <2>8. RowInv'
    <3>1. OnRecord(op.vm, op.target)
      BY <2>1, RecordOfAny DEF ViewInv, RowInv
    <3> QED BY <1>4, <2>1, <2>6, <3>1, AgentsAlone DEF ViewInv, RowInv, Tracked
  <2>9. SavedInv'
    <3>1. \A v \in Vms : Row0(v)' <=> v \in Tracked
      BY <2>2 DEF Row0, Tracked
    <3>2. \A v \in Vms : Row0(v)' => vms[v].fresh /\ vms[v].confirmed <= guest[v].served
      BY <3>1 DEF ViewInv, RowInv
    <3>3. OnRecord(op.vm, vms[op.vm].pending)
      BY <2>1 DEF ViewInv, RowInv
    <3>4. vms[op.vm].pending = 0 => OnRecord(op.vm, 0)'
      BY <1>4, <2>1, <3>3, AgentsAlone
    <3> QED BY <1>4, <2>1, <2>2, <2>6, <3>2, <3>4 DEF SavedInv
  <2> QED BY <2>7, <2>8, <2>9 DEF ViewInv
<1>5. ASSUME Ask PROVE ViewInv'
  BY <1>1, <1>4, <1>5, Zenon DEF Ask
<1>6. ASSUME Reserve PROVE ViewInv'
  <2>1. op.kind = "start" /\ op.step = "reserve" /\ \A v \in Vms : Row0(v) <=> v \in Tracked
    BY <1>6 DEF Reserve, TrackInv, StepInv
  <2>2. /\ op'.kind = "start" /\ op'.step = "send" /\ op'.todo = Tracked
        /\ op'.saved = op.saved /\ UNCHANGED <<queue, guest>> /\ Bump
        /\ vms' = [v \in Vms |-> IF op.saved[v].state # "stopped" THEN op.saved[v]
                                 ELSE [op.saved[v] EXCEPT !.state = "creating"]]
    BY <1>6, <2>1 DEF Reserve, TypeOK, OpType
  <2>3. ASSUME NEW r \in Row
        PROVE  /\ [r EXCEPT !.state = "creating"].pending = r.pending
               /\ [r EXCEPT !.state = "creating"].fresh = r.fresh
               /\ [r EXCEPT !.state = "creating"].confirmed = r.confirmed
    BY DEF Row
  <2>4. ASSUME NEW v \in Vms, vms'[v].state # "untracked"
        PROVE  /\ Row0(v) /\ vms'[v].pending = op.saved[v].pending
               /\ vms'[v].fresh = op.saved[v].fresh
               /\ vms'[v].confirmed = op.saved[v].confirmed
    <3>1. op.saved[v] \in Row
      BY GuestNumbers
    <3> QED BY <2>2, <2>3, <2>4, <3>1 DEF Row0
  <2>5. RowInv'
    BY <2>1, <2>2, <2>4, AgentsAlone DEF ViewInv, SavedInv, RowInv, Tracked
  <2>6. ReadInv' /\ GuestInv' /\ AnswerInv'
    BY <2>2, Bumped, AgentsAlone DEF ViewInv, AnswerInv
  <2>7. SavedInv'
    BY <2>1, <2>2, AgentsAlone DEF ViewInv, SavedInv, Row0, Tracked
  <2> QED BY <2>5, <2>6, <2>7 DEF ViewInv
<1>7. ASSUME Conclude PROVE ViewInv'
  BY <1>1, <1>7 DEF Conclude
<1> QED BY <1>3, <1>5, <1>6, <1>7

LEMMA SkipsView ==
  ASSUME TypeOK, TypeOK', TrackInv, ViewInv, NoLooks',
         SendsDone \/ \E v \in Vms : SkipHost(v) \/ SendFails(v)
  PROVE  ViewInv'
<1> USE DEF database, agents, history
<1>1. /\ op.step = "send" /\ op'.kind = op.kind /\ op'.saved = op.saved /\ op'.target = op.target
      /\ op'.todo \subseteq op.todo /\ UNCHANGED <<vms, reads, queue, guest>> /\ Busy
      /\ op'.step \in {"survey", "refresh"} => op'.todo = {}
      /\ op'.step = "wait" => /\ op'.vm \in op.todo \ op'.todo /\ answer'.is = "error"
  <2>1. op.step = "send" /\ Busy /\ UNCHANGED <<vms, reads, queue, guest>>
    BY DEF SendsDone, SkipHost, SendFails, TrackInv, StepInv, Busy
  <2>2. CASE SendsDone
    BY <2>1, <2>2 DEF SendsDone, After, TypeOK, OpType
  <2>3. ASSUME NEW v \in Vms, SkipHost(v)
        PROVE  op'.kind = op.kind /\ op'.saved = op.saved /\ op'.target = op.target
               /\ op'.todo \subseteq op.todo /\ op'.step = "send"
    BY <2>1, <2>3 DEF SkipHost, TypeOK, OpType
  <2>4. ASSUME NEW v \in Vms, SendFails(v)
        PROVE  /\ op'.kind = op.kind /\ op'.saved = op.saved /\ op'.target = op.target
               /\ op'.todo = op.todo \ {v} /\ op'.step = "wait" /\ op'.vm = v
               /\ v \in op.todo /\ answer'.is = "error"
    BY <2>1, <2>4 DEF SendFails, NoAnswer, TypeOK, OpType
  <2> QED BY <2>1, <2>2, <2>3, <2>4
<1>2. RowInv' /\ GuestInv'
  BY <1>1, AgentsAlone DEF ViewInv, RowInv, Tracked
<1>3. ReadInv'
  BY <1>1, StillNobody DEF ViewInv, Busy
<1>4. AnswerInv'
  BY <1>1 DEF AnswerInv
<1>5. \A v \in Vms : Alone(v)'
  <2>1. \A h \in Hosts : \A i \in DOMAIN queue[h] : ~queue[h][i].waited
    BY <1>1, NobodyWaits
  <2> QED BY <1>1, <2>1, FleetAssumption DEF Alone
<1>6. SavedInv'
  <2>1. op.todo \subseteq Vms
    BY DEF TypeOK, OpType
  <2> QED BY <1>1, <1>5, <2>1, AgentsAlone DEF ViewInv, SavedInv, Row0
<1> QED BY <1>2, <1>3, <1>4, <1>6 DEF ViewInv

LEMMA SendView ==
  ASSUME TypeOK, TypeOK', TrackInv, ViewInv, NoLooks', NEW v \in Vms, Send(v)
  PROVE  ViewInv'
<1> USE DEF database, history
<1> DEFINE r == [kind |-> RequestKind, vm |-> v, target |-> op.target,
                 waited |-> TRUE, begun |-> FALSE]
           n == Len(queue[Home[v]]) + 1
<1>1. op.step = "send" /\ Busy /\ v \in op.todo /\ answer.is = "none"
  BY DEF Send, TrackInv, StepInv, Busy
<1>2. Home[v] \in Hosts /\ queue[Home[v]] \in Seq(Request)
  BY FleetAssumption DEF TypeOK
<1>3. queue' = [queue EXCEPT ![Home[v]] = Append(queue[Home[v]], r)]
  BY Zenon DEF Send
<1>4. /\ r.vm = v /\ ~r.begun /\ r.waited /\ r.target = op.target
      /\ r.kind = "resize" => op.kind = "resize"
      /\ r.kind = "create" => op.kind = "create"
  BY DEF RequestKind
<1> HIDE DEF r
<1>5. /\ DOMAIN queue'[Home[v]] = DOMAIN queue[Home[v]] \union {n} /\ n \notin DOMAIN queue[Home[v]]
      /\ queue'[Home[v]][n] = r /\ \A i \in DOMAIN queue[Home[v]] : i < n
      /\ \A i \in DOMAIN queue[Home[v]] : queue'[Home[v]][i] = queue[Home[v]][i]
      /\ \A h \in Hosts \ {Home[v]} : queue'[h] = queue[h]
  BY <1>2, <1>3 DEF TypeOK
<1> HIDE DEF n
<1>6. /\ op'.step = "wait" /\ op'.vm = v /\ op'.todo = op.todo \ {v} /\ op'.kind = op.kind
      /\ op'.saved = op.saved /\ op'.target = op.target
      /\ UNCHANGED <<vms, answer, reads, guest>>
  BY DEF Send, TypeOK, OpType
<1>7. \A h \in Hosts : \A i \in DOMAIN queue[h] : ~queue[h][i].waited
  BY <1>1, NobodyWaits
<1>8. \A w \in Vms : Home[w] \in Hosts
  BY FleetAssumption
<1>9. ASSUME NEW w \in Vms, NEW p, OnRecord(w, p), w = v /\ op.kind = "resize" => p = op.target
      PROVE  OnRecord(w, p)'
  <2>1. ASSUME NEW i \in DOMAIN queue'[Home[w]], Carries(queue[Home[w]][i], w)'
        PROVE  p = queue'[Home[w]][i].target
    <3>1. CASE w = v /\ i = n
      BY <1>4, <1>5, <1>9, <2>1, <3>1 DEF Carries
    <3>2. CASE ~(w = v /\ i = n)
      <4>1. queue'[Home[w]][i].vm = w
        BY <2>1 DEF Carries
      <4>2. i \in DOMAIN queue[Home[w]] /\ queue'[Home[w]][i] = queue[Home[w]][i]
        BY <1>4, <1>5, <1>8, <3>2, <4>1
      <4>3. Unborn(w)' => Unborn(w)
        <5>1. w = v => op.kind # "create"
          BY <1>1, <4>1, <4>2 DEF TrackInv, TodoInv, Untouched, Queued
        <5> QED BY <1>4, <1>5, <1>8, <5>1 DEF Unborn
      <4>4. Carries(queue[Home[w]][i], w)
        BY <1>6, <2>1, <4>2, <4>3 DEF Carries
      <4> QED BY <1>9, <4>2, <4>4 DEF OnRecord
    <3> QED BY <3>1, <3>2
  <2>2. guest'[w].pending # 0 => p = guest'[w].pending
    BY <1>6, <1>9 DEF OnRecord
  <2> QED BY <2>1, <2>2 DEF OnRecord
<1>10. RowInv'
  <2>1. op.kind = "resize" => vms[v].pending = op.target
    BY <1>1 DEF ViewInv, SavedInv
  <2>2. \A w \in Vms : w \in Tracked => OnRecord(w, vms[w].pending)'
    BY <1>6, <1>9, <2>1 DEF ViewInv, RowInv
  <2> QED BY <1>6, <2>2 DEF ViewInv, RowInv, Tracked
<1>11. ReadInv'
  BY <1>1, <1>6, StillNobody DEF ViewInv, Busy
<1>12. GuestInv'
  <2>1. r.kind = "create" => guest[v].state = "absent"
    BY <1>1, <1>4 DEF TrackInv, TodoInv, Untouched
  <2> SUFFICES ASSUME NEW h \in Hosts, NEW i \in DOMAIN queue'[h]
               PROVE  LET q == queue'[h][i] IN
                      /\ q.kind = "create" /\ ~q.begun => guest'[q.vm].state = "absent"
                      /\ q.kind = "resize" /\ q.begun => guest'[q.vm].pending = q.target
                      /\ q.waited => \A j \in DOMAIN queue'[h] : j > i => queue'[h][j].vm # q.vm
    BY <1>6 DEF ViewInv, GuestInv
  <2>2. CASE h = Home[v] /\ i = n
    <3>1. \A j \in DOMAIN queue'[h] : ~(j > i)
      BY <1>2, <1>5, <2>2 DEF n
    <3> QED BY <1>4, <1>5, <1>6, <2>1, <2>2, <3>1
  <2>3. CASE ~(h = Home[v] /\ i = n)
    <3>1. i \in DOMAIN queue[h] /\ queue'[h][i] = queue[h][i]
      BY <1>5, <2>3
    <3> QED BY <1>6, <1>7, <3>1 DEF ViewInv, GuestInv
  <2> QED BY <2>2, <2>3
<1>13. AnswerInv'
  BY <1>1, <1>6 DEF AnswerInv
<1>14. op.kind = "resize" /\ op.saved[v].pending = 0 => Alone(v)'
  <2> SUFFICES ASSUME OnRecord(v, 0)
               PROVE  Alone(v)'
    BY <1>1 DEF ViewInv, SavedInv
  <2>1. guest[v].size \in Nat
    BY GuestNumbers
  <2>2. ASSUME NEW j \in DOMAIN queue[Home[v]] PROVE ~Carries(queue[Home[v]][j], v)
    <3>1. queue[Home[v]][j] \in Request
      BY <1>2, <2>2
    <3>2. queue[Home[v]][j].target \in Nat \ {0}
      BY <3>1, FleetAssumption DEF Request
    <3> QED BY <2>2, <3>2 DEF OnRecord
  <2>3. ASSUME NEW j \in DOMAIN queue'[Home[v]], j # n PROVE ~Carries(queue[Home[v]][j], v)'
    <3>1. j \in DOMAIN queue[Home[v]] /\ queue'[Home[v]][j] = queue[Home[v]][j]
      BY <1>5, <2>3
    <3>2. CASE op.kind = "create"
      <4>1. queue[Home[v]][j].vm # v
        BY <1>1, <3>1, <3>2 DEF TrackInv, TodoInv, Untouched, Queued
      <4> QED BY <3>1, <4>1 DEF Carries
    <3>3. CASE op.kind # "create"
      <4>1. Unborn(v)' => Unborn(v)
        BY <1>4, <1>5, <3>3 DEF Unborn
      <4> QED BY <1>6, <2>2, <3>1, <4>1 DEF Carries
    <3> QED BY <3>2, <3>3
  <2>4. \A i \in DOMAIN queue'[Home[v]] : queue'[Home[v]][i].waited => i = n
    BY <1>2, <1>5, <1>7
  <2>5. guest'[v].pending = 0
    BY <1>6 DEF OnRecord
  <2> QED BY <2>3, <2>4, <2>5 DEF Alone, Only
<1>15. SavedInv'
  <2>1. op.todo \subseteq Vms
    BY DEF TypeOK, OpType
  <2>2. \A w \in op.todo \ {v} : OnRecord(w, 0) => OnRecord(w, 0)'
    BY <1>9, <2>1
  <2>3. op.kind \in {"start", "stop"} =>
          \A w \in Vms : OnRecord(w, op.saved[w].pending) => OnRecord(w, op.saved[w].pending)'
    BY <1>6, <1>9
  <2> QED BY <1>1, <1>6, <1>14, <2>1, <2>2, <2>3 DEF ViewInv, SavedInv, Row0
<1> QED BY <1>10, <1>11, <1>12, <1>13, <1>15 DEF ViewInv

LEMMA TakesView ==
  ASSUME TypeOK, TypeOK', TrackInv, ViewInv, NoLooks',
         TakeCreated \/ TakeDeleted \/ TakeChanged \/ TakeResized
  PROVE  ViewInv'
<1> USE DEF agents, history
<1>1. op.step = "wait" /\ answer.is # "none" /\ \E f \in BOOLEAN : Continue(f)
  BY Zenon DEF TakeCreated, TakeDeleted, TakeChanged, TakeResized, Answered, Succeeded, Deleted
<1>2. op.vm \in used /\ op.vm \in Vms /\ Busy /\ op.vm \notin op.todo /\ op.todo \subseteq Vms
  BY <1>1 DEF TrackInv, StepInv, Busy, TypeOK, OpType, ViewInv, AnswerInv
<1>3. /\ op'.step = "send" /\ op'.kind = op.kind /\ op'.todo = op.todo /\ op'.saved = op.saved
      /\ op'.target = op.target /\ UNCHANGED <<queue, guest, reads>>
  BY <1>1 DEF Continue, TypeOK, OpType
<1>4. \A v \in Vms : v # op.vm => vms'[v] = vms[v]
  <2>1. ASSUME TakeDeleted PROVE \A v \in Vms : v # op.vm => vms'[v] = vms[v]
    BY <2>1 DEF TakeDeleted, Without
  <2> QED BY <1>2, <2>1 DEF TakeCreated, TakeChanged, TakeResized, TypeOK
<1>5. ReadInv' /\ GuestInv' /\ AnswerInv'
  BY <1>1, <1>2, <1>3, StillNobody, AgentsAlone DEF ViewInv, Busy, AnswerInv
<1>6. SavedInv'
  BY <1>1, <1>2, <1>3, <1>4, AgentsAlone DEF ViewInv, SavedInv, Row0
<1>7. vms'[op.vm].state # "untracked" =>
        /\ vms'[op.vm].fresh /\ vms'[op.vm].confirmed <= guest[op.vm].served
        /\ OnRecord(op.vm, vms'[op.vm].pending)
  <2> DEFINE Fits(row) == /\ row.fresh /\ row.confirmed <= guest[op.vm].served
                          /\ OnRecord(op.vm, row.pending)
  <2>1. vms[op.vm].state # "untracked" => Fits(vms[op.vm])
    BY <1>2 DEF ViewInv, RowInv, Tracked
  <2>2. Succeeded => answer.guest.served <= guest[op.vm].served
    BY <1>1 DEF Succeeded, ViewInv, AnswerInv
  <2>3. Succeeded /\ op.kind \in {"create", "resize"} => Fits(Confirmed(answer.guest))
    BY <1>1, <2>2 DEF Succeeded, ViewInv, AnswerInv, Confirmed
  <2>4. ASSUME NEW r \in Row
        PROVE  /\ [r EXCEPT !.error = TRUE].pending = r.pending
               /\ [r EXCEPT !.error = TRUE].fresh = r.fresh
               /\ [r EXCEPT !.error = TRUE].confirmed = r.confirmed
               /\ [r EXCEPT !.error = TRUE].state = r.state
    BY DEF Row
  <2>5. vms[op.vm] \in Row /\ op.saved[op.vm] \in Row
    BY <1>2, GuestNumbers
  <2>6. ASSUME TakeCreated PROVE vms'[op.vm].state # "untracked" => Fits(vms'[op.vm])
    <3>1. op.kind = "create"
            /\ vms' = [vms EXCEPT ![op.vm] = IF Succeeded THEN Confirmed(answer.guest)
                                             ELSE [vms[op.vm] EXCEPT !.error = TRUE]]
      BY <2>6 DEF TakeCreated, Answered
    <3>2. CASE Succeeded
      <4>1. vms'[op.vm] = Confirmed(answer.guest)
        BY <1>2, <3>1, <3>2 DEF TypeOK
      <4> QED BY <2>3, <3>1, <3>2, <4>1
    <3>3. CASE ~Succeeded
      <4>1. vms'[op.vm] = [vms[op.vm] EXCEPT !.error = TRUE]
        BY <1>2, <3>1, <3>3 DEF TypeOK
      <4> QED BY <2>1, <2>4, <2>5, <4>1
    <3> QED BY <3>2, <3>3
  <2>7. ASSUME TakeDeleted PROVE vms'[op.vm].state # "untracked" => Fits(vms'[op.vm])
    <3>1. vms'[op.vm] = vms[op.vm] \/ vms'[op.vm].state = "untracked"
      BY <1>2, <2>7 DEF TakeDeleted, Without, NoRow, Planned
    <3> QED BY <2>1, <3>1
  <2>8. ASSUME TakeChanged PROVE vms'[op.vm].state # "untracked" => Fits(vms'[op.vm])
    <3>1. op.kind \in {"start", "stop"}
            /\ vms' = IF ~Succeeded THEN vms ELSE [vms EXCEPT ![op.vm] =
                 [op.saved[op.vm] EXCEPT
                    !.state = IF op.kind = "start" THEN "running" ELSE "stopped",
                    !.error = FALSE, !.confirmed = answer.guest.served, !.fresh = TRUE]]
      BY <2>8 DEF TakeChanged, Answered
    <3>2. OnRecord(op.vm, op.saved[op.vm].pending)
      BY <1>1, <1>2, <3>1 DEF ViewInv, SavedInv
    <3>3. ASSUME NEW r \in Row, NEW s, NEW m
          PROVE  LET new == [r EXCEPT !.state = s, !.error = FALSE, !.confirmed = m, !.fresh = TRUE]
                 IN new.pending = r.pending /\ new.fresh /\ new.confirmed = m
      BY DEF Row
    <3>4. CASE Succeeded
      <4>1. PICK s : vms'[op.vm] = [op.saved[op.vm] EXCEPT !.state = s, !.error = FALSE,
                                     !.confirmed = answer.guest.served, !.fresh = TRUE]
        BY <1>2, <3>1, <3>4 DEF TypeOK
      <4> QED BY <2>2, <2>5, <3>2, <3>3, <3>4, <4>1
    <3>5. CASE ~Succeeded
      BY <2>1, <3>1, <3>5
    <3> QED BY <3>4, <3>5
  <2>9. ASSUME TakeResized PROVE vms'[op.vm].state # "untracked" => Fits(vms'[op.vm])
    <3>1. op.kind = "resize"
            /\ vms' = [vms EXCEPT ![op.vm] = IF Succeeded THEN Confirmed(answer.guest)
                         ELSE IF Withdraws THEN op.saved[op.vm] ELSE vms[op.vm]]
      BY <2>9 DEF TakeResized, Answered
    <3>2. \/ Succeeded /\ vms'[op.vm] = Confirmed(answer.guest)
          \/ Withdraws /\ vms'[op.vm] = op.saved[op.vm]
          \/ vms'[op.vm] = vms[op.vm]
      BY <1>2, <3>1 DEF TypeOK
    <3>3. Withdraws => Fits(op.saved[op.vm])
      <4>1. Row0(op.vm)
        BY <1>1, <3>1 DEF TrackInv, StepInv
      <4> QED BY <1>1, <1>2, <4>1 DEF Withdraws, ViewInv, SavedInv, AnswerInv
    <3> QED BY <2>1, <2>3, <3>1, <3>2, <3>3
  <2> QED BY <2>6, <2>7, <2>8, <2>9
<1>8. RowInv'
  BY <1>2, <1>3, <1>4, <1>7, AgentsAlone DEF ViewInv, RowInv, Tracked
<1> QED BY <1>5, <1>6, <1>8 DEF ViewInv

\* The row of a VM after what a refresh that is still current has heard of it.
LEMMA ObservedFits ==
  ASSUME TypeOK, ViewInv, NEW v \in Tracked, NEW g \in Guest,
         g.served >= vms[v].confirmed, g.pending # 0 => vms[v].pending \in {0, g.pending},
         g.state # "absent" => /\ ~Unborn(v)
                               /\ guest[v].state # "absent" => g.size <= guest[v].size
  PROVE  LET row == Observed(vms[v], g) IN
         /\ row.fresh /\ row.confirmed = vms[v].confirmed /\ OnRecord(v, row.pending)
         /\ row.pending \in {0, vms[v].pending, g.pending}
<1> DEFINE row == Observed(vms[v], g)
<1>1. v \in Vms
  BY DEF Tracked
<1>2. OnRecord(v, vms[v].pending)
  BY DEF ViewInv, RowInv
<1>3. /\ guest[v].state = "absent" => guest[v].pending = 0
      /\ guest[v].pending # 0 => guest[v].size < guest[v].pending
  BY <1>1 DEF ViewInv, GuestInv
<1>4. vms[v] \in Row /\ guest[v].size \in Nat /\ guest[v].pending \in Nat /\ vms[v].pending \in Nat
  BY <1>1, GuestNumbers
<1>5. g.size \in Nat
  BY LeastType DEF Guest
<1>6. CASE g.state = "absent"
  <2>1. row.fresh /\ row.confirmed = vms[v].confirmed /\ row.pending = vms[v].pending
    BY <1>4, <1>6 DEF Observed, Missing, Row
  <2> QED BY <1>2, <2>1
<1>7. CASE g.state # "absent"
  <2>1. /\ row.fresh /\ row.confirmed = vms[v].confirmed
        /\ row.pending = IF vms[v].pending # 0 /\ g.pending = 0 /\ g.size # vms[v].pending
                         THEN vms[v].pending ELSE g.pending
    BY <1>7 DEF Observed, Merged
  <2> HIDE DEF row
  <2>2. row.pending \in {0, vms[v].pending, g.pending}
    BY <2>1
  <2>3. CASE row.pending = vms[v].pending
    BY <1>2, <2>1, <2>2, <2>3 DEF row
  <2>4. CASE vms[v].pending = 0
    <3>1. OnRecord(v, row.pending)
      BY <1>1, <1>2, <2>4, RecordOfAny
    <3> QED BY <2>1, <2>2, <3>1 DEF row
  <2>5. CASE vms[v].pending # 0 /\ row.pending # vms[v].pending
    <3>1. vms[v].pending = g.size /\ row.pending = 0
      BY <2>1, <2>5
    <3>2. guest[v].state # "absent" => vms[v].pending <= guest[v].size
      BY <1>7, <3>1
    <3>3. guest[v].pending = 0
      BY <1>2, <1>3, <1>4, <3>2 DEF OnRecord
    <3>4. \A i \in DOMAIN queue[Home[v]] : ~Carries(queue[Home[v]][i], v)
      <4> SUFFICES ASSUME NEW i \in DOMAIN queue[Home[v]], Carries(queue[Home[v]][i], v)
                   PROVE  FALSE
        OBVIOUS
      <4>1. queue[Home[v]][i].target = vms[v].pending
        BY <1>2 DEF OnRecord
      <4> QED BY <1>4, <1>7, <3>2, <4>1 DEF Carries
    <3>5. OnRecord(v, 0)
      BY <3>3, <3>4 DEF OnRecord
    <3>6. OnRecord(v, row.pending)
      BY <3>1, <3>5
    <3> QED BY <2>1, <2>2, <3>6 DEF row
  <2> QED BY <2>3, <2>4, <2>5
<1> QED BY <1>6, <1>7

\* Refreshes that only forget leave nothing new to be heard.
\* Refreshes that have heard no more than before.
LEMMA HeardLess ==
  ASSUME TypeOK, ReadInv, UNCHANGED <<vms, queue, guest>>,
         \A s \in Readers : reads'[s].step = "idle" => ~reads'[s].current,
         \A s \in Readers, v \in Vms :
           Heard(s, v)' => Heard(s, v) /\ reads'[s].got[Home[v]] = reads[s].got[Home[v]]
  PROVE  ReadInv'
<1>1. \A s \in Readers, v \in Vms : Heard(s, v)' => Heard(s, v) /\ Told(s, v)' = Told(s, v)
  BY DEF Told
<1>2. Tracked' = Tracked /\ Tracked \subseteq Vms
  BY DEF Tracked
<1>3. \A v \in Vms : Unborn(v)' <=> Unborn(v)
  BY AgentsAlone
<1> QED BY <1>1, <1>2, <1>3 DEF ReadInv, Current

\* A refresh takes note of an answer s of a host, or forgets it.
Notes(r, h, s) ==
  /\ \A x \in Readers : reads'[x].step = reads[x].step /\ reads'[x].current = reads[x].current
  /\ \A x \in Readers \ {r} : reads'[x] = reads[x]
  /\ \A k \in Hosts \ {h} : reads'[r].got[k] = reads[r].got[k]
  /\ reads'[r].got[h] = s

LEMMA NotesTaken ==
  ASSUME TypeOK, NEW r \in Readers, NEW h \in Hosts, NEW s,
         \/ reads' = [reads EXCEPT ![r].got[h] = s]
         \/ reads' = [reads EXCEPT ![r].left = @ \ {h}, ![r].got[h] = s]
  PROVE  Notes(r, h, s)
<1> DEFINE x == reads[r]
<1>1. x \in ReadType /\ reads \in [Readers -> ReadType]
  BY DEF TypeOK
<1>2. \/ reads' = [reads EXCEPT ![r] = [x EXCEPT !.got[h] = s]]
      \/ reads' = [reads EXCEPT ![r] = [x EXCEPT !.left = @ \ {h}, !.got[h] = s]]
  OBVIOUS
<1> HIDE DEF x
<1>3. /\ reads'[r] \in {[x EXCEPT !.got[h] = s], [x EXCEPT !.left = @ \ {h}, !.got[h] = s]}
      /\ \A y \in Readers \ {r} : reads'[y] = reads[y]
  BY <1>1, <1>2
<1>4. /\ reads'[r].step = x.step /\ reads'[r].current = x.current
      /\ reads'[r].got[h] = s /\ \A k \in Hosts \ {h} : reads'[r].got[k] = x.got[k]
  <2>1. x.got \in [Hosts -> Snapshot]
    BY <1>1 DEF ReadType
  <2>2. CASE reads'[r] = [x EXCEPT !.got[h] = s]
    BY <1>1, <2>1, <2>2 DEF ReadType
  <2>3. CASE reads'[r] = [x EXCEPT !.left = @ \ {h}, !.got[h] = s]
    BY <1>1, <2>1, <2>3 DEF ReadType
  <2> QED BY <1>3, <2>2, <2>3
<1> QED BY <1>3, <1>4 DEF x, Notes

LEMMA StartsView ==
  ASSUME TypeOK, TypeOK', TrackInv, ViewInv, NoLooks', NEW r \in Readers,
         StartRead(r) \/ EndRead(r)
  PROVE  ViewInv'
<1> USE DEF database, agents, history
<1>1. /\ UNCHANGED <<vms, answer, queue, guest>> /\ op'.kind = op.kind
      /\ \A s \in Readers \ {r} : reads'[s] = reads[s]
      /\ \A h \in Hosts : reads'[r].got[h] = NoSnapshot
      /\ reads'[r].step = "idle" => ~reads'[r].current
  <2>1. CASE StartRead(r)
    BY <2>1 DEF StartRead, NoRead, TypeOK
  <2>2. CASE EndRead(r)
    BY <2>2 DEF EndRead, NoRead, TypeOK, OpType
  <2> QED BY <2>1, <2>2
<1>2. ReadInv'
  <2>1. \A v \in Vms : ~Heard(r, v)'
    BY <1>1, FleetAssumption DEF Heard, NoSnapshot
  <2>2. \A s \in Readers \ {r}, v \in Vms :
          (Heard(s, v)' <=> Heard(s, v)) /\ reads'[s].got[Home[v]] = reads[s].got[Home[v]]
    BY <1>1 DEF Heard, Current, Touches, Busy
  <2>3. \A s \in Readers : reads'[s].step = "idle" => ~reads'[s].current
    BY <1>1 DEF ViewInv, ReadInv, Current
  <2> QED BY <1>1, <2>1, <2>2, <2>3, HeardLess DEF ViewInv
<1>3. CASE op' = op
  BY <1>1, <1>2, <1>3, FrameView
<1>4. CASE op' # op
  <2>1. /\ op.step \in {"survey", "refresh"}
        /\ op'.step \in {"ask", "conclude"} /\ op'.todo = op.todo /\ op'.saved = op.saved
        /\ op'.target = op.target
    BY <1>4 DEF StartRead, EndRead, TrackInv, StepInv, TypeOK, OpType
  <2>2. RowInv' /\ GuestInv'
    BY <1>1, AgentsAlone DEF ViewInv, RowInv, Tracked
  <2>3. AnswerInv'
    BY <2>1 DEF AnswerInv
  <2>4. SavedInv'
    <3>1. op.todo \subseteq Vms
      BY DEF TypeOK, OpType
    <3> QED BY <1>1, <2>1, <3>1, AgentsAlone DEF ViewInv, SavedInv, Row0
  <2> QED BY <1>2, <2>2, <2>3, <2>4 DEF ViewInv
<1> QED BY <1>3, <1>4

LEMMA FetchesView ==
  ASSUME TypeOK, TypeOK', TrackInv, ViewInv, NoLooks', NEW r \in Readers, NEW h \in Hosts,
         Fetch(r, h) \/ FetchFails(r, h)
  PROVE  ViewInv'
<1> USE DEF database, agents, history
<1>1. UNCHANGED <<vms, op, answer, queue, guest>>
  BY DEF Fetch, FetchFails
<1>2. PICK s : /\ reads' = [reads EXCEPT ![r].got[h] = s]
               /\ s = [is |-> "up", guests |-> Inventory(h)] \/ s.is = "down"
  <2>1. [NoSnapshot EXCEPT !.is = "down"].is = "down"
    BY DEF NoSnapshot
  <2> QED BY <2>1, Zenon DEF Fetch, FetchFails, Got
<1>3. Notes(r, h, s)
  BY <1>2, NotesTaken, Zenon
<1>4. \A v \in Vms : Home[v] \in Hosts
  BY FleetAssumption
<1>5. \A x \in Readers, v \in Vms : ~(x = r /\ Home[v] = h) =>
        (Heard(x, v)' <=> Heard(x, v)) /\ Told(x, v)' = Told(x, v)
  BY <1>1, <1>3, <1>4 DEF Notes, Heard, Told, Current, Touches, Busy
<1>6. \A v \in Vms : Home[v] = h /\ Heard(r, v)' => Told(r, v)' = guest[v]
  <2> SUFFICES ASSUME NEW v \in Vms, Home[v] = h, Heard(r, v)' PROVE Told(r, v)' = guest[v]
    OBVIOUS
  <2>1. reads'[r].got[h].is = "up"
    BY DEF Heard
  <2>2. s = [is |-> "up", guests |-> Inventory(h)]
    BY <1>2, <1>3, <2>1 DEF Notes
  <2>3. Told(r, v)' = Inventory(h)[v]
    BY <1>3, <2>2 DEF Notes, Told
  <2> QED BY <2>3 DEF Inventory
<1>7. Tracked' = Tracked /\ Tracked \subseteq Vms
  BY <1>1 DEF Tracked
<1>8. \A v \in Vms : Unborn(v)' <=> Unborn(v)
  BY <1>1, AgentsAlone
<1>9. \A v \in Vms : Unborn(v) => guest[v].state = "absent"
  BY <1>4 DEF ViewInv, GuestInv, Unborn
<1>10. ReadInv'
  <2>1. \A x \in Readers : reads'[x].step = "idle" => ~Current(x)'
    BY <1>3 DEF Notes, ViewInv, ReadInv, Current
  <2>2. ASSUME NEW x \in Readers, NEW v \in Vms, Heard(x, v)'
        PROVE  LET g == Told(x, v)' IN
               /\ v \in Tracked => /\ g.served >= vms[v].confirmed
                                   /\ g.pending # 0 => vms[v].pending \in {0, g.pending}
               /\ g.state # "absent" =>
                    ~Unborn(v) /\ (guest[v].state # "absent" => g.size <= guest[v].size)
    <3>1. CASE x = r /\ Home[v] = h
      <4>1. Told(x, v)' = guest[v]
        BY <1>6, <2>2, <3>1
      <4>2. v \in Tracked => /\ guest[v].served >= vms[v].confirmed
                             /\ guest[v].pending # 0 => vms[v].pending = guest[v].pending
        BY GuestNumbers DEF ViewInv, RowInv, OnRecord
      <4>3. guest[v].size <= guest[v].size
        BY GuestNumbers
      <4> QED BY <1>9, <4>1, <4>2, <4>3
    <3>2. CASE ~(x = r /\ Home[v] = h)
      <4>1. Heard(x, v) /\ Told(x, v)' = Told(x, v)
        BY <1>5, <2>2, <3>2
      <4> QED BY <4>1 DEF ViewInv, ReadInv
    <3> QED BY <3>1, <3>2
  <2>3. ASSUME NEW x \in Readers \ {r}, NEW v \in Tracked, Home[v] = h, Heard(x, v)',
               Told(x, v)'.pending # 0, guest[v].pending # 0
        PROVE  Told(x, v)'.pending = guest[v].pending
    <3>1. v \in Vms
      BY DEF Tracked
    <3>2. Heard(x, v) /\ Told(x, v)' = Told(x, v)
      BY <1>5, <2>3, <3>1
    <3>3. vms[v].pending = guest[v].pending
      BY <2>3 DEF ViewInv, RowInv, OnRecord
    <3>4. vms[v].pending \in {0, Told(x, v).pending}
      BY <2>3, <3>1, <3>2 DEF ViewInv, ReadInv
    <3> QED BY <2>3, <3>2, <3>3, <3>4
  <2>4. ASSUME NEW x \in Readers, NEW y \in Readers, NEW v \in Tracked, Heard(x, v)', Heard(y, v)'
        PROVE  Told(x, v)'.pending = 0 \/ Told(y, v)'.pending \in {0, Told(x, v)'.pending}
    <3>1. v \in Vms
      BY DEF Tracked
    <3>2. CASE x = y
      BY <3>2
    <3>3. CASE x # y /\ x = r /\ Home[v] = h
      BY <1>6, <2>3, <2>4, <3>1, <3>3
    <3>4. CASE x # y /\ y = r /\ Home[v] = h
      BY <1>6, <2>3, <2>4, <3>1, <3>4
    <3>5. CASE (x # r /\ y # r) \/ Home[v] # h
      BY <1>5, <2>4, <3>1, <3>5 DEF ViewInv, ReadInv
    <3> QED BY <3>2, <3>3, <3>4, <3>5
  <2> QED BY <1>1, <1>7, <1>8, <2>1, <2>2, <2>4 DEF ReadInv
<1> QED BY <1>1, <1>10, FrameView

LEMMA AppliesView ==
  ASSUME TypeOK, TypeOK', TrackInv, ViewInv, NoLooks', NEW r \in Readers, NEW h \in Hosts,
         Apply(r, h)
  PROVE  ViewInv'
<1> USE DEF agents, history
<1>1. UNCHANGED <<op, answer, queue, guest>> /\ reads[r].got[h].is # "none"
  BY DEF Apply
<1>2. Notes(r, h, NoSnapshot)
  <2>1. reads' = [reads EXCEPT ![r].left = @ \ {h}, ![r].got[h] = NoSnapshot]
    BY DEF Apply
  <2> QED BY <2>1, NotesTaken, Zenon
<1>3. \A v \in Vms : Home[v] \in Hosts
  BY FleetAssumption
<1>4. ASSUME NEW x \in Readers, NEW v \in Vms, Heard(x, v)'
      PROVE  ~(x = r /\ Home[v] = h) /\ Heard(x, v) /\ Told(x, v)' = Told(x, v)
  <2>1. ~(x = r /\ Home[v] = h)
    BY <1>2, <1>4 DEF Notes, Heard, NoSnapshot
  <2>2. reads'[x].got[Home[v]] = reads[x].got[Home[v]] /\ reads'[x].current = reads[x].current
    BY <1>2, <1>3, <2>1 DEF Notes
  <2> QED BY <1>1, <1>4, <2>1, <2>2 DEF Heard, Told, Current, Touches, Busy
<1>5. ASSUME NEW v \in Vms
      PROVE  \/ vms'[v] = vms[v]
             \/ /\ Heard(r, v) /\ v \in Tracked
                /\ vms'[v] = Observed(vms[v], Told(r, v))
  <2>1. \/ vms' = vms
        \/ /\ Current(r) /\ h \in hosts /\ reads[r].got[h].is # "down"
           /\ vms' = [w \in Vms |-> IF Touches(r) /\ w \in TrackedOn(h)
                        THEN Observed(vms[w], reads[r].got[h].guests[w]) ELSE vms[w]]
    BY Zenon DEF Apply
  <2>2. reads[r].got[h].is \in {"none", "up", "down"}
    <3>1. reads[r].got[h] \in Snapshot
      BY DEF TypeOK, ReadType
    <3> QED BY <3>1 DEF Snapshot
  <2> QED BY <1>1, <2>1, <2>2 DEF TrackedOn, Heard, Told
<1>6. ASSUME NEW v \in Vms, v \in Tracked, Heard(r, v)
      PROVE  LET row == Observed(vms[v], Told(r, v)) IN
             /\ row.fresh /\ row.confirmed = vms[v].confirmed /\ OnRecord(v, row.pending)
             /\ row.pending \in {0, vms[v].pending, Told(r, v).pending}
             /\ row.state # "untracked"
  <2>1. Told(r, v) \in Guest
    <3>1. reads[r].got[Home[v]] \in Snapshot
      BY <1>3 DEF TypeOK, ReadType
    <3> QED BY <3>1 DEF Snapshot, Told
  <2>2. /\ Told(r, v).served >= vms[v].confirmed
        /\ Told(r, v).pending # 0 => vms[v].pending \in {0, Told(r, v).pending}
        /\ Told(r, v).state # "absent" =>
             ~Unborn(v) /\ (guest[v].state # "absent" => Told(r, v).size <= guest[v].size)
    BY <1>6 DEF ViewInv, ReadInv
  <2>3. vms[v] \in Row
    BY GuestNumbers
  <2> QED BY <1>6, <2>1, <2>2, <2>3, ObservedFits, MergedType
<1>7. Tracked' = Tracked /\ Tracked \subseteq Vms
  BY <1>5, <1>6 DEF Tracked
<1>8. RowInv'
  <2> SUFFICES ASSUME NEW v \in Tracked
               PROVE  /\ vms'[v].fresh /\ vms'[v].confirmed <= guest[v].served
                      /\ OnRecord(v, vms'[v].pending)
    BY <1>1, <1>7, AgentsAlone DEF RowInv
  <2>1. vms[v].fresh /\ vms[v].confirmed <= guest[v].served /\ OnRecord(v, vms[v].pending)
    BY DEF ViewInv, RowInv
  <2> QED BY <1>5, <1>6, <1>7, <2>1
<1>9. ReadInv'
  <2>1. \A x \in Readers : reads'[x].step = "idle" => ~Current(x)'
    BY <1>2 DEF Notes, ViewInv, ReadInv, Current
  <2>2. \A v \in Vms : Unborn(v)' <=> Unborn(v)
    BY <1>1, AgentsAlone
  <2>3. ASSUME NEW x \in Readers, NEW v \in Vms, Heard(x, v)'
        PROVE  LET g == Told(x, v)' IN
               /\ v \in Tracked => /\ g.served >= vms'[v].confirmed
                                   /\ g.pending # 0 => vms'[v].pending \in {0, g.pending}
               /\ g.state # "absent" =>
                    ~Unborn(v) /\ (guest[v].state # "absent" => g.size <= guest[v].size)
    <3>1. Heard(x, v) /\ Told(x, v)' = Told(x, v)
      BY <1>4, <2>3
    <3>2. /\ v \in Tracked => /\ Told(x, v).served >= vms[v].confirmed
                              /\ Told(x, v).pending # 0 =>
                                   vms[v].pending \in {0, Told(x, v).pending}
          /\ Told(x, v).state # "absent" =>
               ~Unborn(v) /\ (guest[v].state # "absent" => Told(x, v).size <= guest[v].size)
      BY <3>1 DEF ViewInv, ReadInv
    <3>3. CASE vms'[v] = vms[v]
      BY <3>1, <3>2, <3>3
    <3>4. CASE /\ Heard(r, v) /\ v \in Tracked
               /\ vms'[v] = Observed(vms[v], Told(r, v))
      <4>1. vms'[v].confirmed = vms[v].confirmed
            /\ vms'[v].pending \in {0, vms[v].pending, Told(r, v).pending}
        BY <1>6, <3>4
      <4>2. Told(x, v).pending = 0 \/ Told(r, v).pending \in {0, Told(x, v).pending}
        BY <3>1, <3>4 DEF ViewInv, ReadInv
      <4> QED BY <3>1, <3>2, <4>1, <4>2
    <3> QED BY <1>5, <3>3, <3>4
  <2>4. ASSUME NEW x \in Readers, NEW y \in Readers, NEW v \in Tracked, Heard(x, v)', Heard(y, v)'
        PROVE  Told(x, v)'.pending = 0 \/ Told(y, v)'.pending \in {0, Told(x, v)'.pending}
    BY <1>4, <1>7, <2>4 DEF ViewInv, ReadInv
  <2> QED BY <1>1, <1>7, <2>1, <2>2, <2>3, <2>4 DEF ReadInv
<1>10. AnswerInv' /\ GuestInv'
  BY <1>1, AgentsAlone DEF ViewInv, AnswerInv, TrackInv, StepInv, TypeOK
<1>11. SavedInv'
  <2>1. op.todo \subseteq Vms /\ (op.step = "wait" => op.vm \in Vms)
    BY DEF TypeOK, OpType, TrackInv, StepInv
  <2>2. ASSUME op.kind = "resize", NEW v \in op.todo PROVE vms'[v] = vms[v]
    <3>1. ~Heard(r, v)
      <4>1. op.step \notin {"survey", "refresh"}
        BY <2>2 DEF ViewInv, SavedInv
      <4> QED BY <2>1, <2>2, <4>1, NobodyHeard DEF Busy, ViewInv
    <3> QED BY <1>5, <2>1, <2>2, <3>1
  <2> QED BY <1>1, <2>1, <2>2, AgentsAlone DEF ViewInv, SavedInv, Row0
<1> QED BY <1>8, <1>9, <1>10, <1>11 DEF ViewInv

LEMMA HostsView ==
  ASSUME TypeOK, TypeOK', TrackInv, ViewInv, NoLooks',
         Lapse \/ Elsewhere \/ \E h \in Hosts : Register(h) \/ Remove(h) \/ Detach(h)
  PROVE  ViewInv'
<1> USE DEF database, agents, history, process
<1>1. ASSUME UNCHANGED <<vms, op, answer, queue, guest, reads>> PROVE ViewInv'
  <2>1. ReadInv'
    BY <1>1, HeardSame DEF ViewInv
  <2> QED BY <1>1, <2>1, FrameView
<1>2. ASSUME Lapse PROVE ViewInv'
  BY <1>1, <1>2 DEF Lapse
<1>3. ASSUME Elsewhere PROVE ViewInv'
  BY <1>3, Bumped, FrameView DEF Elsewhere, ViewInv
<1>4. ASSUME NEW h \in Hosts, Register(h) \/ Remove(h) PROVE ViewInv'
  BY <1>1, <1>4 DEF Register, Remove
<1>5. ASSUME NEW h \in Hosts, Detach(h) PROVE ViewInv'
  <2>1. /\ vms' = Without(TrackedOn(h)) /\ (~Busy \/ TrackedOn(h) = {}) /\ Bump
        /\ UNCHANGED <<op, answer, queue, guest>>
    BY <1>5 DEF Detach
  <2>2. ReadInv' /\ GuestInv'
    BY <2>1, Bumped, AgentsAlone DEF ViewInv
  <2>3. RowInv'
    <3>1. \A v \in Tracked' : v \in Tracked /\ vms'[v] = vms[v]
      BY <2>1 DEF Without, Tracked, NoRow, Planned
    <3>2. Tracked \subseteq Vms
      BY DEF Tracked
    <3> QED BY <2>1, <3>1, <3>2, AgentsAlone DEF ViewInv, RowInv
  <2>4. AnswerInv'
    BY <2>1, AgentsAlone DEF ViewInv, AnswerInv, TrackInv, StepInv, TypeOK
  <2>5. SavedInv'
    <3>1. op.todo \subseteq Vms /\ (op.step = "wait" => op.vm \in Vms)
      BY DEF TypeOK, OpType, TrackInv, StepInv
    <3>2. Busy => \A v \in Vms : vms'[v] = vms[v]
      BY <2>1 DEF Without
    <3> QED BY <2>1, <3>1, <3>2, AgentsAlone DEF ViewInv, SavedInv, Row0, Busy
  <2> QED BY <2>2, <2>3, <2>4, <2>5 DEF ViewInv
<1> QED BY <1>2, <1>3, <1>4, <1>5

(***************************************************************************)
(* The controller's view.  Steps of the agents.                            *)
(***************************************************************************)
\* What a step may do to the guest of a VM and to its agent's requests: the first request may
\* go, requests may begin or lose their caller, and the VM keeps what the record relies on.
Shifts(v, k) ==
  /\ \A i \in DOMAIN queue'[Home[v]] :
       LET new == queue'[Home[v]][i]
           old == queue[Home[v]][i + k] IN
       /\ i + k \in DOMAIN queue[Home[v]]
       /\ new.vm = old.vm /\ new.kind = old.kind /\ new.target = old.target
       /\ (new.waited => old.waited) /\ (old.begun => new.begun)
  /\ \/ guest'[v].pending \in {0, guest[v].pending}
     \/ \E j \in DOMAIN queue[Home[v]] :
          /\ Carries(queue[Home[v]][j], v) /\ guest'[v].pending = queue[Home[v]][j].target
          /\ \A i \in DOMAIN queue'[Home[v]] : i + k = j => queue'[Home[v]][i].begun
Evolves(v) ==
  /\ guest'[v].served >= guest[v].served
  /\ guest'[v].state # "absent" \/ Unborn(v)' =>
       (guest[v].state # "absent" \/ Unborn(v)) /\ guest[v].size <= guest'[v].size
  /\ \E k \in {0, 1} : Shifts(v, k)

LEMMA RecordKept ==
  ASSUME TypeOK, TypeOK', NEW v \in Vms, Evolves(v)
  PROVE  /\ \A p : OnRecord(v, p) => OnRecord(v, p)'
         /\ (Unborn(v)' => Unborn(v)) /\ (Queued(v)' => Queued(v))
         /\ Alone(v) => Alone(v)'
<1> DEFINE q == queue[Home[v]]
           new == queue'[Home[v]]
<1>1. PICK k \in {0, 1} : Shifts(v, k)
  BY DEF Evolves
<1>2. /\ \A i \in DOMAIN new :
           /\ i + k \in DOMAIN q
           /\ new[i].vm = q[i + k].vm /\ new[i].kind = q[i + k].kind
           /\ new[i].target = q[i + k].target
           /\ (new[i].waited => q[i + k].waited) /\ (q[i + k].begun => new[i].begun)
      /\ \/ guest'[v].pending \in {0, guest[v].pending}
         \/ \E j \in DOMAIN q : /\ Carries(q[j], v) /\ guest'[v].pending = q[j].target
                                /\ \A i \in DOMAIN new : i + k = j => new[i].begun
  BY <1>1, Zenon DEF Shifts
<1>3. guest'[v].state # "absent" \/ Unborn(v)' =>
        (guest[v].state # "absent" \/ Unborn(v)) /\ guest[v].size <= guest'[v].size
  BY DEF Evolves
<1>4. /\ DOMAIN new \subseteq Nat /\ \A j \in DOMAIN q : q[j].target \in Nat /\ j \in Nat
      /\ guest[v].size \in Nat /\ guest'[v].size \in Nat
  <2>1. Home[v] \in Hosts /\ q \in Seq(Request) /\ new \in Seq(Request)
    BY FleetAssumption DEF TypeOK
  <2>2. \A j \in DOMAIN q : q[j] \in Request
    BY <2>1
  <2>3. \A r \in Request : r.target \in Nat
    BY LeastType DEF Request
  <2>4. guest[v] \in Guest /\ guest'[v] \in Guest
    BY DEF TypeOK
  <2>5. \A g \in Guest : g.size \in Nat
    BY LeastType DEF Guest
  <2>6. DOMAIN new \subseteq Nat /\ \A j \in DOMAIN q : j \in Nat
    BY <2>1
  <2> QED BY <2>2, <2>3, <2>4, <2>5, <2>6
<1>5. Unborn(v)' => Unborn(v)
  BY <1>2, Zenon DEF Unborn
<1>6. Queued(v)' => Queued(v)
  BY <1>2, Zenon DEF Queued
<1>7. ASSUME NEW i \in DOMAIN new, Carries(queue[Home[v]][i], v)'
      PROVE  i + k \in DOMAIN q /\ Carries(q[i + k], v) /\ new[i].target = q[i + k].target
  <2>1. /\ new[i].vm = v /\ new[i].kind = "resize" /\ new[i].target > guest'[v].size
        /\ guest'[v].state # "absent" \/ Unborn(v)'
    BY <1>7 DEF Carries
  <2>2. (guest[v].state # "absent" \/ Unborn(v)) /\ guest[v].size <= guest'[v].size
    BY <1>3, <2>1
  <2>3. /\ i + k \in DOMAIN q /\ q[i + k].vm = v /\ q[i + k].kind = "resize"
        /\ new[i].target = q[i + k].target
    BY <1>2, <2>1
  <2>4. q[i + k].target > guest[v].size
    BY <1>4, <2>1, <2>2, <2>3
  <2> QED BY <2>2, <2>3, <2>4 DEF Carries
<1> HIDE DEF q, new
<1>8. ASSUME NEW p, OnRecord(v, p) PROVE OnRecord(v, p)'
  <2>1. \A j \in DOMAIN q : Carries(q[j], v) => p = q[j].target
    BY <1>8 DEF OnRecord, q
  <2>2. \A i \in DOMAIN new : Carries(queue[Home[v]][i], v)' => p = new[i].target
    BY <1>7, <2>1
  <2>3. guest'[v].pending # 0 => p = guest'[v].pending
    BY <1>2, <1>8, <2>1 DEF OnRecord
  <2> QED BY <2>2, <2>3 DEF OnRecord, new
<1>9. ASSUME Alone(v) PROVE Alone(v)'
  <2> SUFFICES ASSUME NEW i \in DOMAIN new, new[i].waited, ~new[i].begun
               PROVE  Only(v, i)'
    BY DEF Alone, new
  <2>1. i + k \in DOMAIN q /\ q[i + k].waited /\ ~q[i + k].begun
    BY <1>2
  <2>2. Only(v, i + k)
    BY <1>9, <2>1 DEF Alone, q
  <2>3. guest[v].pending = 0 /\ \A j \in DOMAIN q : Carries(q[j], v) => j = i + k
    BY <2>2 DEF Only, q
  <2>4. guest'[v].pending = 0
    BY <1>2, <2>3
  <2>5. ASSUME NEW j \in DOMAIN new, Carries(queue[Home[v]][j], v)' PROVE j = i
    <3>1. j + k = i + k
      BY <1>7, <2>3, <2>5
    <3> QED BY <1>4, <3>1
  <2> QED BY <2>4, <2>5 DEF Only, new
<1> QED BY <1>5, <1>6, <1>8, <1>9

\* The part of the invariant about queues and guests, after a step of an agent.
LEMMA GuestsKept ==
  ASSUME TypeOK, TypeOK', TrackInv', ViewInv, \A v \in Vms : Evolves(v),
         \A v \in Vms : /\ guest'[v].state = "absent" => guest'[v].pending = 0
                        /\ guest'[v].pending # 0 => guest'[v].size < guest'[v].pending
                        /\ Unborn(v)' => guest'[v].state = "absent",
         \A h \in Hosts : \A i \in DOMAIN queue'[h] :
           LET r == queue'[h][i] IN r.kind = "resize" /\ r.begun => guest'[r.vm].pending = r.target
  PROVE  GuestInv'
<1> SUFFICES ASSUME NEW h \in Hosts, NEW i \in DOMAIN queue'[h]
             PROVE  LET r == queue'[h][i] IN
                    /\ r.kind = "create" /\ ~r.begun => guest'[r.vm].state = "absent"
                    /\ r.waited => \A j \in DOMAIN queue'[h] : j > i => queue'[h][j].vm # r.vm
  BY DEF GuestInv
<1> DEFINE r == queue'[h][i]
<1>1. r \in Request /\ DOMAIN queue'[h] \subseteq Nat
  <2>1. queue'[h] \in Seq(Request)
    BY DEF TypeOK
  <2> QED BY <2>1
<1>2. r.vm \in Vms /\ Home[r.vm] = h
  BY <1>1 DEF TrackInv, QueueInv, Request
<1>3. r.kind = "create" /\ ~r.begun => guest'[r.vm].state = "absent"
  BY <1>2 DEF Unborn
<1>4. ASSUME r.waited, NEW j \in DOMAIN queue'[h], j > i PROVE queue'[h][j].vm # r.vm
  <2>1. PICK k \in {0, 1} : Shifts(r.vm, k)
    BY <1>2 DEF Evolves
  <2>2. /\ i + k \in DOMAIN queue[h] /\ queue[h][i + k].waited
        /\ queue[h][i + k].vm = r.vm
        /\ j + k \in DOMAIN queue[h] /\ queue[h][j + k].vm = queue'[h][j].vm
    BY <1>2, <1>4, <2>1 DEF Shifts
  <2>3. j + k > i + k
    BY <1>1, <1>4
  <2> QED BY <2>2, <2>3 DEF ViewInv, GuestInv
<1> QED BY <1>3, <1>4

\* A step of an agent keeps the view when it evolves every VM, and answers what still holds.
LEMMA AgentsView ==
  ASSUME TypeOK, TypeOK', TrackInv, TrackInv', ViewInv, NoLooks', UNCHANGED <<vms, op, reads>>,
         \A v \in Vms : Evolves(v), GuestInv',
         \/ answer' = answer
         \/ answer'.is = "error"
         \/ /\ op.step = "wait" /\ ~Queued(op.vm)' /\ answer'.guest = guest'[op.vm]
            /\ answer'.is = "refused" /\ op.saved[op.vm].pending = 0 => guest'[op.vm].pending = 0
  PROVE  ViewInv'
<1>1. \A v \in Vms : /\ \A p : OnRecord(v, p) => OnRecord(v, p)'
                     /\ Unborn(v)' => Unborn(v)
                     /\ Queued(v)' => Queued(v)
                     /\ Alone(v) => Alone(v)'
  BY RecordKept
<1>2. \A v \in Vms : guest'[v].served \in Nat /\ guest[v].served \in Nat
                     /\ guest'[v].served >= guest[v].served
  <2>1. \A v \in Vms : guest'[v] \in Guest
    BY DEF TypeOK
  <2>2. \A g \in Guest : g.served \in Nat
    BY DEF Guest
  <2> QED BY <2>1, <2>2, GuestNumbers DEF Evolves
<1>3. /\ \A v \in Vms : vms[v].confirmed \in Nat /\ op.saved[v].confirmed \in Nat
      /\ answer.guest.served \in Nat
  BY GuestNumbers DEF TypeOK, AnswerType, Guest
<1>4. op.todo \subseteq Vms /\ (op.step = "wait" => op.vm \in Vms)
  BY DEF TypeOK, OpType, TrackInv, StepInv
<1>5. RowInv'
  <2> SUFFICES ASSUME NEW v \in Tracked
               PROVE  /\ vms[v].fresh /\ vms[v].confirmed <= guest'[v].served
                      /\ OnRecord(v, vms[v].pending)'
    BY DEF RowInv, Tracked
  <2>1. v \in Vms
    BY DEF Tracked
  <2>2. vms[v].fresh /\ vms[v].confirmed <= guest[v].served /\ OnRecord(v, vms[v].pending)
    BY DEF ViewInv, RowInv
  <2>3. vms[v].confirmed <= guest'[v].served
    BY <1>2, <1>3, <2>1, <2>2
  <2>4. OnRecord(v, vms[v].pending)'
    BY <1>1, <2>1, <2>2
  <2> QED BY <2>2, <2>3, <2>4
<1>6. ReadInv'
  <2>1. /\ \A r \in Readers, v \in Vms : (Heard(r, v)' <=> Heard(r, v)) /\ Told(r, v)' = Told(r, v)
        /\ \A r \in Readers : Current(r)' <=> Current(r)
        /\ Tracked' = Tracked /\ Tracked \subseteq Vms
    BY DEF Heard, Told, Current, Touches, Busy, Tracked
  <2>2. ASSUME NEW r \in Readers, NEW v \in Vms, Heard(r, v), Told(r, v).state # "absent"
        PROVE  ~Unborn(v)' /\ (guest'[v].state # "absent" => Told(r, v).size <= guest'[v].size)
    <3>1. ~Unborn(v) /\ (guest[v].state # "absent" => Told(r, v).size <= guest[v].size)
      BY <2>2 DEF ViewInv, ReadInv
    <3>2. guest'[v].state # "absent" =>
            guest[v].state # "absent" /\ guest[v].size <= guest'[v].size
      BY <3>1 DEF Evolves
    <3>3. Told(r, v).size \in Nat /\ guest[v].size \in Nat /\ guest'[v].size \in Nat
      <4>1. reads[r].got[Home[v]] \in Snapshot
        BY FleetAssumption DEF TypeOK, ReadType
      <4>2. Told(r, v) \in Guest /\ guest[v] \in Guest /\ guest'[v] \in Guest
        BY <4>1 DEF Snapshot, Told, TypeOK
      <4>3. \A g \in Guest : g.size \in Nat
        BY LeastType DEF Guest
      <4> QED BY <4>2, <4>3
    <3> QED BY <1>1, <3>1, <3>2, <3>3
  <2> QED BY <2>1, <2>2 DEF ViewInv, ReadInv
<1>7. AnswerInv'
  <2> SUFFICES ASSUME op.step = "wait" PROVE AnswerInv'
    BY DEF AnswerInv
  <2>1. op.vm \in Vms /\ op.vm \notin op.todo
    BY <1>4 DEF ViewInv, AnswerInv
  <2>2. CASE answer' = answer
    <3>1. answer.is = "ok" => answer.guest.served <= guest'[op.vm].served
      BY <1>2, <1>3, <2>1 DEF ViewInv, AnswerInv
    <3> QED BY <1>1, <2>1, <2>2, <3>1 DEF ViewInv, AnswerInv
  <2>3. CASE answer'.is = "error"
    BY <2>1, <2>3 DEF AnswerInv
  <2>4. CASE /\ ~Queued(op.vm)' /\ answer'.guest = guest'[op.vm]
             /\ answer'.is = "refused" /\ op.saved[op.vm].pending = 0 => guest'[op.vm].pending = 0
    <3>1. \A p : (guest'[op.vm].pending # 0 => p = guest'[op.vm].pending) => OnRecord(op.vm, p)'
      BY <2>4 DEF OnRecord, Queued, Carries
    <3>2. guest'[op.vm].served <= guest'[op.vm].served
      BY <1>2, <2>1
    <3>3. OnRecord(op.vm, answer.guest.pending)'
      BY <2>4, <3>1
    <3>4. guest'[op.vm].pending = 0 => OnRecord(op.vm, 0)'
      BY <3>1
    <3> QED BY <2>1, <2>4, <3>2, <3>3, <3>4 DEF AnswerInv
  <2> QED BY <2>2, <2>3, <2>4
<1>8. SavedInv'
  <2>1. \A v \in Vms : Row0(v) => op.saved[v].fresh /\ op.saved[v].confirmed <= guest'[v].served
    BY <1>2, <1>3 DEF ViewInv, SavedInv
  <2> QED BY <1>1, <1>4, <2>1 DEF ViewInv, SavedInv, Row0
<1> QED BY <1>5, <1>6, <1>7, <1>8 DEF ViewInv

LEMMA UnbornAbsent ==
  ASSUME ViewInv, NEW v \in Vms, Unborn(v)
  PROVE  guest[v].state = "absent"
BY FleetAssumption DEF ViewInv, GuestInv, Unborn

\* The agent finishes its first request.
LEMMA ReplyView ==
  ASSUME TypeOK, TypeOK', TrackInv, TrackInv', ViewInv, NoLooks',
         NEW h \in Hosts, queue[h] # <<>>,
         NEW is \in {"ok", "refused", "error"}, NEW g \in Guest, Reply(h, is, g),
         g.served = guest[First(h).vm].served,
         g.state # "absent" => /\ guest[First(h).vm].state # "absent"
                               /\ guest[First(h).vm].size <= g.size,
         g.pending \in {0, guest[First(h).vm].pending},
         g.state = "absent" => g.pending = 0,
         g.pending # 0 => g.size < g.pending,
         is = "refused" => First(h).kind = "resize" /\ ~First(h).begun
  PROVE  ViewInv'
<1> USE DEF database, history
<1> DEFINE done == [g EXCEPT !.served = @ + 1]
<1>20. PICK r \in Request : r = First(h)
  BY FirstType
<1>1. /\ guest' = [guest EXCEPT ![r.vm] = done]
      /\ queue' = [queue EXCEPT ![h] = Tail(queue[h])]
      /\ answer' = IF r.waited THEN [is |-> is, guest |-> done] ELSE answer
      /\ UNCHANGED <<database, op, reads, look, sweep, history>>
  BY <1>20, Zenon DEF Reply
<1>2. /\ done.state = g.state /\ done.size = g.size /\ done.pending = g.pending
      /\ done.served = g.served + 1 /\ g.served \in Nat
  BY DEF Guest
<1> HIDE DEF done
<1>3. /\ 1 \in DOMAIN queue[h] /\ r = queue[h][1] /\ Home[r.vm] = h
      /\ r.vm \in used
      /\ r.waited => op.step = "wait" /\ r.vm = op.vm /\ r.kind = RequestKind
  BY <1>20, FirstTracks
<1>4. LET o == guest[r.vm] IN
      /\ g.served = o.served
      /\ g.state # "absent" => o.state # "absent" /\ o.size <= g.size
      /\ g.pending \in {0, o.pending}
      /\ is = "refused" => r.kind = "resize" /\ ~r.begun
  BY <1>20
<1>5. /\ \A i \in DOMAIN queue'[h] : /\ i + 1 \in DOMAIN queue[h] /\ i \in Nat \ {0}
                                   /\ queue'[h][i] = queue[h][i + 1]
      /\ \A k \in Hosts \ {h} : queue'[k] = queue[k]
  BY <1>1, <1>3 DEF TypeOK
<1>6. r.vm \in Vms /\ guest'[r.vm] = done /\ \A w \in Vms \ {r.vm} : guest'[w] = guest[w]
  BY <1>1, <1>3 DEF TypeOK
<1>7. \A w \in Vms : Home[w] \in Hosts
  BY FleetAssumption
<1>8. ~Unborn(r.vm)'
  <2> SUFFICES ASSUME NEW i \in DOMAIN queue'[h], queue'[h][i].vm = r.vm,
                      queue'[h][i].kind = "create"
               PROVE  FALSE
    BY <1>3 DEF Unborn
  <2>1. /\ i + 1 \in DOMAIN queue[h] /\ queue[h][i + 1].vm = r.vm
        /\ queue[h][i + 1].kind = "create" /\ 1 < i + 1
    BY <1>5
  <2> QED BY <1>3, <2>1 DEF TrackInv, QueueInv
<1>9. \A v \in Vms : v # r.vm => (Unborn(v)' => Unborn(v))
  BY <1>5, <1>7 DEF Unborn
<1>10. ASSUME NEW v \in Vms PROVE Evolves(v)
  <2>1. guest[v].served \in Nat /\ guest[v].size \in Nat
    BY GuestNumbers
  <2>2. CASE v = r.vm
    <3>1. Shifts(v, 1)
      <4>1. \A i \in DOMAIN queue'[Home[v]] :
              LET new == queue'[Home[v]][i]
                  old == queue[Home[v]][i + 1] IN i + 1 \in DOMAIN queue[Home[v]] /\ new = old
        BY <1>3, <1>5, <2>2
      <4>2. guest'[v].pending \in {0, guest[v].pending}
        BY <1>2, <1>4, <1>6, <2>2
      <4> QED BY <4>1, <4>2 DEF Shifts
    <3>2. guest'[v].served >= guest[v].served
      BY <1>2, <1>4, <1>6, <2>1, <2>2
    <3>3. guest'[v].state # "absent" =>
            guest[v].state # "absent" /\ guest[v].size <= guest'[v].size
      BY <1>2, <1>4, <1>6, <2>2
    <3> QED BY <1>8, <2>2, <3>1, <3>2, <3>3 DEF Evolves
  <2>3. CASE v # r.vm
    <3>1. guest'[v] = guest[v]
      BY <1>6, <2>3
    <3>2. \E k \in {0, 1} : Shifts(v, k)
      <4>1. CASE Home[v] = h
        <5>1. \A i \in DOMAIN queue'[Home[v]] :
                LET new == queue'[Home[v]][i]
                    old == queue[Home[v]][i + 1] IN i + 1 \in DOMAIN queue[Home[v]] /\ new = old
          BY <1>5, <4>1
        <5>2. Shifts(v, 1)
          BY <3>1, <5>1 DEF Shifts
        <5> QED BY <5>2
      <4>2. CASE Home[v] # h
        <5>1. queue'[Home[v]] = queue[Home[v]] /\ queue[Home[v]] \in Seq(Request)
          BY <1>5, <1>7, <4>2 DEF TypeOK
        <5>2. \A i \in DOMAIN queue[Home[v]] : i + 0 = i
          BY <5>1
        <5>3. Shifts(v, 0)
          BY <3>1, <5>1, <5>2 DEF Shifts
        <5> QED BY <5>3
      <4> QED BY <4>1, <4>2
    <3>3. guest'[v].served >= guest[v].served /\ guest[v].size <= guest'[v].size
      BY <2>1, <3>1
    <3> QED BY <1>9, <2>3, <3>1, <3>2, <3>3 DEF Evolves
  <2> QED BY <2>2, <2>3
<1>11. GuestInv'
  <2>1. ASSUME NEW v \in Vms
        PROVE  /\ guest'[v].state = "absent" => guest'[v].pending = 0
               /\ guest'[v].pending # 0 => guest'[v].size < guest'[v].pending
               /\ Unborn(v)' => guest'[v].state = "absent"
    <3>1. CASE v = r.vm
      BY <1>2, <1>6, <1>8, <3>1
    <3>2. CASE v # r.vm
      BY <1>6, <1>9, <3>2, UnbornAbsent DEF ViewInv, GuestInv
    <3> QED BY <3>1, <3>2
  <2>2. ASSUME NEW k \in Hosts, NEW i \in DOMAIN queue'[k], queue'[k][i].kind = "resize",
               queue'[k][i].begun
        PROVE  guest'[queue'[k][i].vm].pending = queue'[k][i].target
    <3>1. k # h
      BY <1>5, <2>2 DEF TrackInv, QueueInv
    <3>2. queue'[k] = queue[k] /\ queue[k] \in Seq(Request)
      BY <1>5, <3>1 DEF TypeOK
    <3>3. queue[k][i].vm \in Vms /\ Home[queue[k][i].vm] = k
      <4>1. i \in DOMAIN queue[k] /\ queue[k][i] \in Request
        BY <2>2, <3>2
      <4> QED BY <4>1 DEF Request, TrackInv, QueueInv
    <3>4. guest'[queue[k][i].vm] = guest[queue[k][i].vm]
      BY <1>3, <1>6, <3>1, <3>3
    <3> QED BY <2>2, <3>2, <3>4 DEF ViewInv, GuestInv
  <2> QED BY <1>10, <2>1, <2>2, GuestsKept
<1>12. CASE ~r.waited
  BY <1>1, <1>10, <1>11, <1>12, AgentsView
<1>13. CASE r.waited
  <2>1. op.step = "wait" /\ r.vm = op.vm /\ answer'.guest = guest'[op.vm] /\ answer'.is = is
    BY <1>1, <1>3, <1>6, <1>13
  <2>2. ~Queued(op.vm)'
    <3> SUFFICES ASSUME NEW i \in DOMAIN queue'[h], queue'[h][i].vm = r.vm PROVE FALSE
      <4>1. op'.vm = r.vm
        BY <1>1, <2>1
      <4> QED BY <1>3, <4>1 DEF Queued
    <3>1. i + 1 \in DOMAIN queue[h] /\ i + 1 > 1 /\ queue[h][i + 1].vm = r.vm
      BY <1>5
    <3> QED BY <1>3, <1>13, <3>1 DEF ViewInv, GuestInv
  <2>3. is = "refused" /\ op.saved[op.vm].pending = 0 => guest'[op.vm].pending = 0
    <3> SUFFICES ASSUME is = "refused", op.saved[op.vm].pending = 0
                 PROVE  guest'[op.vm].pending = 0
      OBVIOUS
    <3>1. op.kind = "resize"
      BY <1>3, <1>4, <1>13 DEF RequestKind
    <3>2. Alone(op.vm)
      BY <2>1, <3>1 DEF ViewInv, SavedInv
    <3>3. guest[op.vm].pending = 0
      BY <1>3, <1>4, <1>13, <2>1, <3>2 DEF Alone, Only
    <3> QED BY <1>2, <1>4, <1>6, <2>1, <3>3
  <2> QED BY <1>1, <1>10, <1>11, <2>1, <2>2, <2>3, AgentsView
<1> QED BY <1>12, <1>13

\* The agent begins its first request.
LEMMA WorkOnView ==
  ASSUME TypeOK, TypeOK', TrackInv, TrackInv', ViewInv, NoLooks',
         NEW h \in Hosts, Waiting(h), NEW g \in Guest, WorkOn(h, g),
         g.served = guest[First(h).vm].served, g.size = guest[First(h).vm].size,
         g.state # "absent", guest[First(h).vm].state # "absent" \/ First(h).kind = "create",
         \/ First(h).kind # "resize" /\ g.pending = guest[First(h).vm].pending
         \/ /\ First(h).kind = "resize" /\ g.pending = First(h).target
            /\ First(h).target > guest[First(h).vm].size
  PROVE  ViewInv'
<1> USE DEF database, history, process
<1>1. queue[h] # <<>> /\ queue[h] \in Seq(Request) /\ ~First(h).begun
  BY DEF Waiting, TypeOK
<1>2. PICK r \in Request : r = First(h)
  BY <1>1, FirstType
<1>3. /\ 1 \in DOMAIN queue[h] /\ r = queue[h][1] /\ Home[r.vm] = h /\ r.vm \in Vms /\ ~r.begun
  BY <1>1, <1>2, FirstTracks DEF TypeOK
<1>4. /\ guest' = [guest EXCEPT ![r.vm] = g]
      /\ queue' = [queue EXCEPT ![h] = [queue[h] EXCEPT ![1] = [r EXCEPT !.begun = TRUE]]]
      /\ UNCHANGED <<vms, op, answer, reads>>
  BY <1>2, <1>3 DEF WorkOn
<1>5. LET o == guest[r.vm] IN
      /\ g.served = o.served /\ g.size = o.size
      /\ o.state # "absent" \/ r.kind = "create"
      /\ \/ r.kind # "resize" /\ g.pending = o.pending
         \/ r.kind = "resize" /\ g.pending = r.target /\ r.target > o.size
  BY <1>2
<1>6. LET b == [r EXCEPT !.begun = TRUE] IN
      /\ b.vm = r.vm /\ b.kind = r.kind /\ b.target = r.target /\ b.waited = r.waited /\ b.begun
  BY DEF Request
<1>7. /\ \A k \in Hosts \ {h} : queue'[k] = queue[k]
      /\ \A k \in Hosts : DOMAIN queue'[k] = DOMAIN queue[k]
      /\ \A i \in DOMAIN queue[h] : i # 1 => queue'[h][i] = queue[h][i]
      /\ queue'[h][1] = [r EXCEPT !.begun = TRUE]
  BY <1>1, <1>3, <1>4 DEF TypeOK
<1>8. ASSUME NEW k \in Hosts, NEW i \in DOMAIN queue'[k]
      PROVE  /\ i \in DOMAIN queue[k] /\ i \in Nat
             /\ queue'[k][i].vm = queue[k][i].vm /\ queue'[k][i].kind = queue[k][i].kind
             /\ queue'[k][i].target = queue[k][i].target
             /\ queue'[k][i].waited = queue[k][i].waited
             /\ (queue[k][i].begun => queue'[k][i].begun)
  <2>1. queue[k] \in Seq(Request) /\ i \in DOMAIN queue[k]
    BY <1>7 DEF TypeOK
  <2>2. i \in Nat
    BY <2>1
  <2>3. CASE k = h /\ i = 1
    BY <1>3, <1>6, <1>7, <2>1, <2>2, <2>3
  <2>4. CASE k # h \/ i # 1
    BY <1>7, <2>1, <2>2, <2>4
  <2> QED BY <2>3, <2>4
<1>9. guest'[r.vm] = g /\ \A w \in Vms \ {r.vm} : guest'[w] = guest[w]
  BY <1>3, <1>4 DEF TypeOK
<1>10. \A w \in Vms : Home[w] \in Hosts
  BY FleetAssumption
<1>11. ~Unborn(r.vm)'
  <2> SUFFICES ASSUME NEW i \in DOMAIN queue'[h], queue'[h][i].vm = r.vm,
                      queue'[h][i].kind = "create", ~queue'[h][i].begun
               PROVE  FALSE
    BY <1>3 DEF Unborn
  <2>1. i # 1
    BY <1>6, <1>7
  <2>2. i \in DOMAIN queue[h] /\ queue[h][i].vm = r.vm /\ queue[h][i].kind = "create"
    BY <1>8
  <2>3. 1 < i
    BY <1>1, <2>1, <2>2
  <2> QED BY <1>3, <2>2, <2>3 DEF TrackInv, QueueInv
<1>12. \A v \in Vms : Unborn(v)' => Unborn(v)
  BY <1>8, <1>10 DEF Unborn
<1>13. ASSUME NEW v \in Vms PROVE Evolves(v)
  <2>1. guest[v].served \in Nat /\ guest[v].size \in Nat
    BY GuestNumbers
  <2>2. \A i \in DOMAIN queue'[Home[v]] :
          LET new == queue'[Home[v]][i]
              old == queue[Home[v]][i + 0] IN
          /\ i + 0 \in DOMAIN queue[Home[v]]
          /\ new.vm = old.vm /\ new.kind = old.kind /\ new.target = old.target
          /\ (new.waited => old.waited) /\ (old.begun => new.begun)
    BY <1>8, <1>10
  <2>3. CASE v = r.vm
    <3>1. \/ guest'[v].pending \in {0, guest[v].pending}
          \/ \E j \in DOMAIN queue[Home[v]] :
               /\ Carries(queue[Home[v]][j], v) /\ guest'[v].pending = queue[Home[v]][j].target
               /\ \A i \in DOMAIN queue'[Home[v]] : i + 0 = j => queue'[Home[v]][i].begun
      <4>1. CASE r.kind # "resize"
        BY <1>5, <1>9, <2>3, <4>1
      <4>2. CASE r.kind = "resize"
        <5>1. Carries(queue[h][1], v) /\ guest'[v].pending = queue[h][1].target
          BY <1>3, <1>5, <1>9, <2>3, <4>2 DEF Carries
        <5>2. \A i \in DOMAIN queue'[h] : i + 0 = 1 => queue'[h][i].begun
          <6>1. queue'[h][1].begun
            BY <1>6, <1>7
          <6>2. \A i \in DOMAIN queue'[h] : i + 0 = i
            BY <1>8
          <6> QED BY <6>1, <6>2
        <5> QED BY <1>3, <2>3, <5>1, <5>2
      <4> QED BY <4>1, <4>2
    <3>2. Shifts(v, 0)
      BY <2>2, <3>1 DEF Shifts
    <3>3. guest[v].state # "absent" \/ Unborn(v)
      BY <1>3, <1>5, <2>3 DEF Unborn
    <3>4. guest'[v].served >= guest[v].served /\ guest[v].size <= guest'[v].size
      BY <1>5, <1>9, <2>1, <2>3
    <3> QED BY <3>2, <3>3, <3>4 DEF Evolves
  <2>4. CASE v # r.vm
    <3>1. guest'[v] = guest[v]
      BY <1>9, <2>4
    <3>2. Shifts(v, 0)
      BY <2>2, <3>1 DEF Shifts
    <3>3. guest'[v].served >= guest[v].served /\ guest[v].size <= guest'[v].size
      BY <2>1, <3>1
    <3> QED BY <1>12, <3>1, <3>2, <3>3 DEF Evolves
  <2> QED BY <2>3, <2>4
<1>14. GuestInv'
  <2>1. ASSUME NEW v \in Vms
        PROVE  /\ guest'[v].state = "absent" => guest'[v].pending = 0
               /\ guest'[v].pending # 0 => guest'[v].size < guest'[v].pending
               /\ Unborn(v)' => guest'[v].state = "absent"
    <3>1. CASE v = r.vm
      BY <1>3, <1>5, <1>9, <1>11, <3>1 DEF ViewInv, GuestInv
    <3>2. CASE v # r.vm
      BY <1>9, <1>12, <3>2, UnbornAbsent DEF ViewInv, GuestInv
    <3> QED BY <3>1, <3>2
  <2>2. ASSUME NEW k \in Hosts, NEW i \in DOMAIN queue'[k], queue'[k][i].kind = "resize",
               queue'[k][i].begun
        PROVE  guest'[queue'[k][i].vm].pending = queue'[k][i].target
    <3>1. i = 1
      BY <2>2 DEF TrackInv, QueueInv
    <3>2. CASE k = h
      BY <1>5, <1>6, <1>7, <1>9, <2>2, <3>1, <3>2
    <3>3. CASE k # h
      <4>1. i \in DOMAIN queue[k] /\ queue[k] \in Seq(Request) /\ queue'[k][i] = queue[k][i]
        BY <1>7, <3>3 DEF TypeOK
      <4>2. queue[k][i].vm \in Vms /\ queue[k][i].vm # r.vm
        <5>1. queue[k][i] \in Request
          BY <4>1
        <5> QED BY <1>3, <3>3, <4>1, <5>1 DEF Request, TrackInv, QueueInv
      <4> QED BY <1>9, <2>2, <4>1, <4>2 DEF ViewInv, GuestInv
    <3> QED BY <3>2, <3>3
  <2> QED BY <1>13, <2>1, <2>2, GuestsKept
<1> QED BY <1>4, <1>13, <1>14, AgentsView

LEMMA ServesView ==
  ASSUME TypeOK, TypeOK', TrackInv, TrackInv', ViewInv, NoLooks', NEW h \in Hosts, Serve(h)
  PROVE  ViewInv'
<1> DEFINE r == First(h)
           g == guest[r.vm]
<1>1. queue[h] # <<>>
  BY Zenon DEF Serve, Reject, Acknowledge, Undertake, TurnDown, StopGuest, Complete, Fail,
               Serves, Waiting, Working
<1>2. r \in Request /\ g \in Guest /\ g.size \in Nat /\ r.target \in Nat
  <2>1. r \in Request /\ g \in Guest
    BY <1>1, FirstType
  <2> QED BY <2>1, LeastType DEF Guest, Request
<1>3. r.begun => g.state = InHand(r.kind)
  BY <1>1, FirstTracks
<1>4. /\ g.state = "absent" => g.pending = 0
      /\ g.pending # 0 => g.size < g.pending
      /\ r.kind = "resize" /\ r.begun => g.pending = r.target
      /\ r.kind = "create" /\ ~r.begun => g.state = "absent"
  <2>1. 1 \in DOMAIN queue[h] /\ r = queue[h][1] /\ r.vm \in Vms
    BY <1>1, <1>2, FirstTracks DEF Request
  <2> QED BY <2>1 DEF ViewInv, GuestInv
<1>5. ASSUME NEW is \in {"ok", "refused", "error"}, NEW new \in Guest, Reply(h, is, new),
             new.served = g.served,
             new.state # "absent" => g.state # "absent" /\ g.size <= new.size,
             new.pending \in {0, g.pending},
             new.state = "absent" => new.pending = 0,
             new.pending # 0 => new.size < new.pending,
             is = "refused" => r.kind = "resize" /\ ~r.begun
      PROVE  ViewInv'
  BY <1>1, <1>5, ReplyView
<1>6. ASSUME NEW new \in Guest, Waiting(h), WorkOn(h, new), new.served = g.served,
             new.size = g.size, new.state # "absent", g.state # "absent" \/ r.kind = "create",
             \/ r.kind # "resize" /\ new.pending = g.pending
             \/ r.kind = "resize" /\ new.pending = r.target /\ r.target > g.size
      PROVE  ViewInv'
  BY <1>6, WorkOnView
<1> HIDE DEF r, g
<1>7. ASSUME NEW is \in {"ok", "refused", "error"}, Reply(h, is, g),
             is = "refused" => r.kind = "resize" /\ ~r.begun
      PROVE  ViewInv'
  BY <1>2, <1>4, <1>5, <1>7
<1>8. ASSUME Reject(h) PROVE ViewInv'
  <2>1. PICK is \in {"refused", "error"} : Reply(h, is, g) /\ (is = "refused" => r.kind = "resize")
    BY <1>8, Zenon DEF Reject, r, g
  <2>2. ~r.begun
    BY <1>8 DEF Reject, Waiting, r
  <2> QED BY <1>7, <2>1, <2>2
<1>9. ASSUME Acknowledge(h) PROVE ViewInv'
  <2>1. Reply(h, "ok", g)
    BY <1>9 DEF Acknowledge, r, g
  <2> QED BY <1>7, <2>1
<1>10. ASSUME TurnDown(h) PROVE ViewInv'
  <2>1. PICK is \in {"refused", "error"} : Reply(h, is, g) /\ (is = "refused" => r.kind = "resize")
    BY <1>10, Zenon DEF TurnDown, r, g
  <2>2. ~r.begun
    BY <1>10 DEF TurnDown, Serves, Waiting, r
  <2> QED BY <1>7, <2>1, <2>2
<1>11. ASSUME Undertake(h) PROVE ViewInv'
  <2>1. /\ Waiting(h) /\ ~Rejects(r, g) /\ ~Satisfied(r, g)
        /\ \/ r.kind \in {"create", "start"} /\ WorkOn(h, [g EXCEPT !.state = "creating"])
           \/ r.kind = "delete" /\ WorkOn(h, [g EXCEPT !.state = "deleting"])
           \/ r.kind = "resize" /\ WorkOn(h, [g EXCEPT !.pending = r.target, !.error = TRUE])
    BY <1>11, Zenon DEF Undertake, Serves, r, g
  <2>2. g.state # "absent" \/ r.kind = "create"
    BY <2>1 DEF Rejects, Satisfied
  <2>3. ASSUME NEW s \in {"creating", "deleting"}, WorkOn(h, [g EXCEPT !.state = s]),
               r.kind # "resize"
        PROVE  ViewInv'
    <3> DEFINE new == [g EXCEPT !.state = s]
    <3>1. /\ new \in Guest /\ new.state = s /\ new.served = g.served /\ new.size = g.size
          /\ new.pending = g.pending
      BY <1>2 DEF Guest, States
    <3> HIDE DEF new
    <3>2. WorkOn(h, new)
      BY <2>3 DEF new
    <3> QED BY <1>6, <2>1, <2>2, <2>3, <3>1, <3>2
  <2>4. ASSUME WorkOn(h, [g EXCEPT !.pending = r.target, !.error = TRUE]), r.kind = "resize"
        PROVE  ViewInv'
    <3> DEFINE new == [g EXCEPT !.pending = r.target, !.error = TRUE]
    <3>1. /\ new \in Guest /\ new.state = g.state /\ new.served = g.served /\ new.size = g.size
          /\ new.pending = r.target
      BY <1>2 DEF Guest, Request
    <3>2. g.state = "stopped" /\ g.pending \in {0, r.target} /\ ~(r.target < g.size)
          /\ ~(g.pending = 0 /\ g.size = r.target)
      BY <2>1, <2>4 DEF Rejects, Satisfied
    <3>3. r.target # 0
      BY <1>2, FleetAssumption DEF Request
    <3>4. r.target > g.size
      BY <1>2, <1>4, <3>2, <3>3
    <3> HIDE DEF new
    <3>5. WorkOn(h, new)
      BY <2>4 DEF new
    <3> QED BY <1>6, <2>1, <2>4, <3>1, <3>2, <3>4, <3>5
  <2> QED BY <2>1, <2>3, <2>4
<1>12. ASSUME StopGuest(h) PROVE ViewInv'
  <2> DEFINE new == [g EXCEPT !.state = "stopped", !.error = FALSE]
  <2>1. Reply(h, "ok", new) /\ g.state # "absent"
    BY <1>12 DEF StopGuest, Serves, Rejects, r, g
  <2>2. /\ new \in Guest /\ new.state = "stopped" /\ new.served = g.served
        /\ new.size = g.size /\ new.pending = g.pending
    BY <1>2 DEF Guest, States
  <2> HIDE DEF new
  <2> QED BY <1>2, <1>4, <1>5, <2>1, <2>2
<1>13. ASSUME Complete(h) PROVE ViewInv'
  <2>1. r.begun /\ g.state = InHand(r.kind)
    BY <1>3, <1>13 DEF Complete, Working, r
  <2>2. CASE /\ r.kind \in {"create", "start"}
             /\ Reply(h, "ok", [g EXCEPT !.state = "running", !.error = FALSE])
    <3> DEFINE new == [g EXCEPT !.state = "running", !.error = FALSE]
    <3>1. /\ new \in Guest /\ new.state = "running" /\ new.served = g.served
          /\ new.size = g.size /\ new.pending = g.pending
      BY <1>2 DEF Guest, States
    <3>2. g.state # "absent"
      BY <2>1, <2>2 DEF InHand
    <3> HIDE DEF new
    <3>3. Reply(h, "ok", new)
      BY <2>2 DEF new
    <3> QED BY <1>2, <1>4, <1>5, <3>1, <3>2, <3>3
  <2>3. CASE r.kind = "delete" /\ Reply(h, "ok", [NoGuest EXCEPT !.served = g.served])
    <3> DEFINE new == [NoGuest EXCEPT !.served = g.served]
    <3>1. new \in Guest /\ new.state = "absent" /\ new.pending = 0 /\ new.served = g.served
      BY <1>2, NullGuests DEF Guest, NoGuest
    <3> HIDE DEF new
    <3>2. Reply(h, "ok", new)
      BY <2>3 DEF new
    <3> QED BY <1>5, <3>1, <3>2
  <2>4. CASE /\ r.kind = "resize"
             /\ Reply(h, "ok", [g EXCEPT !.size = r.target, !.pending = 0, !.error = FALSE])
    <3> DEFINE new == [g EXCEPT !.size = r.target, !.pending = 0, !.error = FALSE]
    <3>1. /\ new \in Guest /\ new.state = g.state /\ new.served = g.served
          /\ new.size = r.target /\ new.pending = 0
      BY <1>2 DEF Guest, Request
    <3>2. g.state = "stopped" /\ g.pending = r.target /\ r.target # 0
      BY <1>2, <1>4, <2>1, <2>4, FleetAssumption DEF InHand, Request
    <3>3. g.size <= r.target
      BY <1>2, <1>4, <3>2
    <3> HIDE DEF new
    <3>4. Reply(h, "ok", new)
      BY <2>4 DEF new
    <3> QED BY <1>5, <3>1, <3>2, <3>3, <3>4
  <2> QED BY <1>13, <2>2, <2>3, <2>4, Zenon DEF Complete, r, g
<1>14. ASSUME Fail(h) PROVE ViewInv'
  <2> DEFINE new == [g EXCEPT !.error = TRUE,
                       !.state = IF r.kind \in {"create", "start"} THEN "failed" ELSE @]
  <2>1. Reply(h, "error", new) /\ (r.begun \/ (r.kind = "stop" /\ ~Rejects(r, g)))
    BY <1>14, Zenon DEF Fail, Working, Serves, r, g
  <2>2. /\ new \in Guest /\ new.served = g.served /\ new.size = g.size /\ new.pending = g.pending
        /\ r.kind \notin {"create", "start"} => new.state = g.state
        /\ r.kind \in {"create", "start"} => new.state = "failed"
    BY <1>2 DEF Guest, States
  <2> HIDE DEF new
  <2>3. r.kind \in {"create", "start"} => g.state # "absent"
    BY <1>3, <2>1 DEF InHand
  <2>4. new.state = "absent" => new.pending = 0
    BY <1>4, <2>2
  <2> QED BY <1>2, <1>4, <1>5, <2>1, <2>2, <2>3, <2>4
<1> QED BY <1>8, <1>9, <1>10, <1>11, <1>12, <1>13, <1>14, Zenon DEF Serve

\* Requests that are gone, or that nobody waits for any more.
LEMMA QueuesLess ==
  ASSUME TypeOK, TypeOK', TrackInv', ViewInv, UNCHANGED guest,
         \A h \in Hosts : \A i \in DOMAIN queue'[h] :
           LET new == queue'[h][i]
               old == queue[h][i] IN
           /\ i \in DOMAIN queue[h] /\ i \in Nat
           /\ new.vm = old.vm /\ new.kind = old.kind /\ new.target = old.target
           /\ (new.waited => old.waited) /\ new.begun = old.begun
  PROVE  (\A v \in Vms : Evolves(v)) /\ GuestInv'
<1>1. \A v \in Vms : Home[v] \in Hosts
  BY FleetAssumption
<1>2. \A v \in Vms : Unborn(v)' => Unborn(v)
  BY <1>1 DEF Unborn
<1>3. ASSUME NEW v \in Vms PROVE Evolves(v)
  <2>1. \A i \in DOMAIN queue'[Home[v]] : i + 0 = i
    BY <1>1
  <2>2. Shifts(v, 0)
    BY <1>1, <2>1 DEF Shifts
  <2>3. guest[v].served >= guest[v].served /\ guest[v].size <= guest[v].size
    BY GuestNumbers
  <2> QED BY <1>2, <2>2, <2>3 DEF Evolves
<1>4. ASSUME NEW v \in Vms
      PROVE  /\ guest'[v].state = "absent" => guest'[v].pending = 0
             /\ guest'[v].pending # 0 => guest'[v].size < guest'[v].pending
             /\ Unborn(v)' => guest'[v].state = "absent"
  BY <1>2, UnbornAbsent DEF ViewInv, GuestInv
<1>5. ASSUME NEW h \in Hosts, NEW i \in DOMAIN queue'[h], queue'[h][i].kind = "resize",
             queue'[h][i].begun
      PROVE  guest'[queue'[h][i].vm].pending = queue'[h][i].target
  BY <1>5 DEF ViewInv, GuestInv
<1> QED BY <1>3, <1>4, <1>5, GuestsKept

LEMMA AbandonedRequests ==
  ASSUME TypeOK, queue' = [h \in Hosts |-> Abandoned(queue[h])]
  PROVE  \A h \in Hosts : \A i \in DOMAIN queue'[h] :
           LET new == queue'[h][i]
               old == queue[h][i] IN
           /\ i \in DOMAIN queue[h] /\ i \in Nat
           /\ new.vm = old.vm /\ new.kind = old.kind /\ new.target = old.target
           /\ (new.waited => old.waited) /\ new.begun = old.begun
<1> SUFFICES ASSUME NEW h \in Hosts, NEW i \in DOMAIN queue'[h]
             PROVE  LET new == queue'[h][i]
                        old == queue[h][i] IN
                    /\ i \in DOMAIN queue[h] /\ i \in Nat
                    /\ new.vm = old.vm /\ new.kind = old.kind /\ new.target = old.target
                    /\ (new.waited => old.waited) /\ new.begun = old.begun
  OBVIOUS
<1>1. queue[h] \in Seq(Request) /\ queue'[h] = Abandoned(queue[h])
  BY DEF TypeOK
<1>2. i \in DOMAIN queue[h] /\ queue'[h][i] = [queue[h][i] EXCEPT !.waited = FALSE]
  BY <1>1, AbandonedType
<1>3. queue[h][i] \in Request /\ i \in Nat
  BY <1>1, <1>2
<1> HIDE DEF Abandoned
<1>4. LET old == queue[h][i]
          new == [old EXCEPT !.waited = FALSE] IN
      /\ new.vm = old.vm /\ new.kind = old.kind /\ new.target = old.target
      /\ ~new.waited /\ new.begun = old.begun
  BY <1>3 DEF Request
<1> QED BY <1>2, <1>3, <1>4

\* The agents' loops, which leave the VM of a request in hand alone.
LEMMA LoopsView ==
  ASSUME TypeOK, TypeOK', TrackInv, TrackInv', ViewInv, NoLooks', NEW v \in Vms,
         AgentLoop(v) \/ Revives(v) \/ GuestEnds(v)
  PROVE  ViewInv'
<1> USE DEF database, history, process
<1>1. /\ ~Working(Home[v]) /\ guest[v].state # "absent"
      /\ UNCHANGED <<vms, op, answer, reads, queue>>
      /\ \A w \in Vms \ {v} : guest'[w] = guest[w]
  BY DEF AgentLoop, Reconcile, ResumeDelete, Revives, GuestEnds, TypeOK
<1>2. /\ guest'[v].served = guest[v].served
      /\ \/ /\ guest'[v].pending = guest[v].pending /\ guest'[v].size = guest[v].size
            /\ guest'[v].state # "absent"
         \/ guest'[v].pending = 0 /\ guest'[v].state = "absent"
  <2>1. guest[v] \in Guest /\ guest \in [Vms -> Guest]
    BY DEF TypeOK
  <2>2. ASSUME NEW s \in {"failed", "running"}, Reconcile(v, s)
        PROVE  guest'[v] = [guest[v] EXCEPT !.state = s, !.error = (s = "failed")]
    BY <2>1, <2>2 DEF Reconcile
  <2>3. Revives(v) => guest'[v] = [guest[v] EXCEPT !.state = "running", !.error = FALSE]
    BY <2>1 DEF Revives
  <2>4. GuestEnds(v) => guest'[v] = [guest[v] EXCEPT !.state = "stopped"]
    BY <2>1 DEF GuestEnds
  <2>5. ResumeDelete(v) => guest'[v] = [NoGuest EXCEPT !.served = guest[v].served]
    BY <2>1 DEF ResumeDelete
  <2>6. \A s \in {"failed", "running", "stopped"}, b \in BOOLEAN :
          LET g == [guest[v] EXCEPT !.state = s, !.error = b] IN
          /\ g.served = guest[v].served /\ g.pending = guest[v].pending
          /\ g.size = guest[v].size /\ g.state = s
    BY <2>1 DEF Guest
  <2>7. LET g == [guest[v] EXCEPT !.state = "stopped"] IN
        /\ g.served = guest[v].served /\ g.pending = guest[v].pending
        /\ g.size = guest[v].size /\ g.state = "stopped"
    BY <2>1 DEF Guest
  <2>8. LET g == [NoGuest EXCEPT !.served = guest[v].served] IN
        g.served = guest[v].served /\ g.pending = 0 /\ g.state = "absent"
    BY DEF NoGuest
  <2>9. CASE Reconcile(v, "failed")
    BY <2>2, <2>6, <2>9
  <2>10. CASE Reconcile(v, "running")
    BY <2>2, <2>6, <2>10
  <2>11. CASE Revives(v)
    BY <2>3, <2>6, <2>11
  <2>12. CASE GuestEnds(v)
    BY <2>4, <2>7, <2>12
  <2>13. CASE ResumeDelete(v)
    BY <2>5, <2>8, <2>13
  <2> QED BY <2>9, <2>10, <2>11, <2>12, <2>13, Zenon DEF AgentLoop
<1>3. ASSUME NEW h \in Hosts, NEW i \in DOMAIN queue[h], queue[h][i].begun
      PROVE  queue[h][i].vm \in Vms \ {v}
  <2>1. queue[h] \in Seq(Request) /\ queue[h] # <<>> /\ i = 1 /\ Home[queue[h][i].vm] = h
    BY <1>3 DEF TypeOK, TrackInv, QueueInv
  <2>2. First(h) = queue[h][i] /\ queue[h][i].vm \in Vms
    BY <2>1, FirstType
  <2>3. Working(h)
    BY <1>3, <2>1, <2>2 DEF Working
  <2> QED BY <1>1, <2>1, <2>2, <2>3
<1>4. \A w \in Vms : Unborn(w)' => Unborn(w)
  BY <1>1 DEF Unborn
<1>5. ~Unborn(v)
  BY <1>1, UnbornAbsent
<1>6. \A h \in Hosts : queue[h] \in Seq(Request)
  BY DEF TypeOK
<1>7. ASSUME NEW w \in Vms PROVE Evolves(w)
  <2>1. guest[w].served \in Nat /\ guest[w].size \in Nat
    BY GuestNumbers
  <2>2. \A i \in DOMAIN queue[Home[w]] : i + 0 = i
    BY <1>6, FleetAssumption
  <2>3. guest'[w].pending \in {0, guest[w].pending}
    BY <1>1, <1>2
  <2>4. Shifts(w, 0)
    BY <1>1, <2>2, <2>3 DEF Shifts
  <2>5. guest'[w].served >= guest[w].served
    BY <1>1, <1>2, <2>1
  <2>6. guest'[w].state # "absent" \/ Unborn(w)' =>
          (guest[w].state # "absent" \/ Unborn(w)) /\ guest[w].size <= guest'[w].size
    BY <1>1, <1>2, <1>4, <1>5, <2>1
  <2> QED BY <2>4, <2>5, <2>6 DEF Evolves
<1>8. ASSUME NEW w \in Vms
      PROVE  /\ guest'[w].state = "absent" => guest'[w].pending = 0
             /\ guest'[w].pending # 0 => guest'[w].size < guest'[w].pending
             /\ Unborn(w)' => guest'[w].state = "absent"
  <2>1. CASE w = v
    BY <1>2, <1>4, <1>5, <2>1 DEF ViewInv, GuestInv
  <2>2. CASE w # v
    BY <1>1, <1>4, <2>2, UnbornAbsent DEF ViewInv, GuestInv
  <2> QED BY <2>1, <2>2
<1>9. ASSUME NEW h \in Hosts, NEW i \in DOMAIN queue'[h], queue'[h][i].kind = "resize",
             queue'[h][i].begun
      PROVE  guest'[queue'[h][i].vm].pending = queue'[h][i].target
  BY <1>1, <1>3, <1>9 DEF ViewInv, GuestInv
<1>10. GuestInv'
  BY <1>7, <1>8, <1>9, GuestsKept
<1> QED BY <1>1, <1>7, <1>10, AgentsView

LEMMA CrashesView ==
  ASSUME TypeOK, TypeOK', TrackInv, TrackInv', ViewInv, NoLooks',
         Timeout \/ CrashController \/ \E h \in Hosts : CrashAgent(h)
  PROVE  ViewInv'
<1> USE DEF database, history
<1>1. ASSUME Timeout PROVE ViewInv'
  <2>1. /\ answer'.is = "error" /\ queue' = [h \in Hosts |-> Abandoned(queue[h])]
        /\ UNCHANGED <<vms, op, reads, guest>>
    BY <1>1 DEF Timeout, NoAnswer
  <2>2. (\A v \in Vms : Evolves(v)) /\ GuestInv'
    BY <2>1, AbandonedRequests, QueuesLess
  <2> QED BY <2>1, <2>2, AgentsView
<1>2. ASSUME NEW h \in Hosts, CrashAgent(h) PROVE ViewInv'
  <2>1. /\ queue' = [queue EXCEPT ![h] = <<>>]
        /\ answer' = answer \/ answer'.is = "error"
        /\ UNCHANGED <<vms, op, reads, guest>>
    BY <1>2 DEF CrashAgent, NoAnswer
  <2>2. /\ \A k \in Hosts \ {h} : queue'[k] = queue[k] /\ queue[k] \in Seq(Request)
        /\ DOMAIN queue'[h] = {}
    BY <2>1 DEF TypeOK
  <2>3. \A k \in Hosts : \A i \in DOMAIN queue'[k] :
          k # h /\ queue'[k][i] = queue[k][i] /\ i \in DOMAIN queue[k] /\ i \in Nat
    BY <2>2
  <2>4. (\A v \in Vms : Evolves(v)) /\ GuestInv'
    BY <2>1, <2>3, QueuesLess
  <2> QED BY <2>1, <2>4, AgentsView
<1>3. ASSUME CrashController PROVE ViewInv'
  <2>1. /\ queue' = [h \in Hosts |-> Abandoned(queue[h])]
        /\ op' = NoOp /\ UNCHANGED <<vms, guest>>
        /\ reads' = [r \in Readers |-> NoRead]
    BY <1>3 DEF CrashController
  <2>2. (\A v \in Vms : Evolves(v)) /\ GuestInv'
    BY <2>1, AbandonedRequests, QueuesLess
  <2>3. RowInv'
    <3>1. \A v \in Tracked : v \in Vms
      BY DEF Tracked
    <3>2. \A v \in Vms : \A p : OnRecord(v, p) => OnRecord(v, p)'
      BY <2>2, RecordKept
    <3>3. \A v \in Tracked : OnRecord(v, vms[v].pending)'
      BY <2>1, <3>1, <3>2 DEF ViewInv, RowInv
    <3> QED BY <2>1, <3>1, <3>3 DEF ViewInv, RowInv, Tracked
  <2>4. ReadInv'
    <3>1. \A r \in Readers : ~Current(r)'
      BY <2>1 DEF Current, NoRead
    <3> QED BY <3>1 DEF ReadInv, Heard
  <2>5. op'.saved = NoRows /\ op'.step = "none" /\ op'.todo = {}
    BY <2>1 DEF NoOp
  <2>6. AnswerInv' /\ SavedInv'
    BY <2>5, NothingSaved DEF AnswerInv
  <2> QED BY <2>2, <2>3, <2>4, <2>6 DEF ViewInv
<1> QED BY <1>1, <1>2, <1>3

LEMMA ViewInit == Init => ViewInv
<1> SUFFICES ASSUME Init PROVE ViewInv
  OBVIOUS
<1>1. /\ vms = NoRows /\ op = NoOp /\ look = NoLook /\ looked = 0
      /\ reads = [r \in Readers |-> NoRead] /\ queue = [h \in Hosts |-> <<>>]
      /\ guest = [v \in Vms |-> NoGuest]
  BY DEF Init
<1>2. Tracked = {}
  BY <1>1 DEF Tracked, NoRows, NoRow, Planned
<1>3. \A v \in Vms : ~Unborn(v)
  BY <1>1, FleetAssumption DEF Unborn
<1>4. GuestInv
  BY <1>1, <1>3 DEF GuestInv, NoGuest
<1>5. ReadInv
  BY <1>1 DEF ReadInv, Heard, Current, NoRead
<1>6. AnswerInv
  BY <1>1 DEF AnswerInv, NoOp
<1>7. SavedInv
  <2>1. \A v \in Vms : ~Row0(v)
    BY <1>1 DEF Row0, NoOp, NoRows, NoRow, Planned
  <2> QED BY <1>1, <2>1 DEF SavedInv, NoOp
<1> QED BY <1>1, <1>2, <1>4, <1>5, <1>6, <1>7 DEF ViewInv, NoLooks, RowInv

LEMMA ViewStep ==
  ASSUME MaxInspections = 0, TypeOK, TrackInv, ViewInv, [Next]_vars
  PROVE  ViewInv'
<1>1. TypeOK' /\ TrackInv'
  BY TypeStep, TrackStep
<1>2. NoLooks' /\ ~Retain /\ \A v \in Vms : ~Inspect(v)
  BY NothingLooked DEF ViewInv
<1>3. CASE UNCHANGED vars
  <2>1. UNCHANGED <<vms, op, answer, queue, guest, reads>>
    BY <1>3 DEF vars, database, process, agents
  <2>2. ReadInv'
    BY <2>1, HeardSame DEF ViewInv
  <2> QED BY <1>2, <2>1, <2>2, FrameView
<1>4. CASE Next
  <2> USE <1>1, <1>2
  <2>1. ASSUME Client \/ Sweep \/ BeginExpire PROVE ViewInv'
    BY <2>1, BeginsView, Zenon DEF Client
  <2>2. ASSUME OperationStep PROVE ViewInv'
    BY <2>2, PlansView, SkipsView, SendView, TakesView, Zenon DEF OperationStep
  <2>3. ASSUME NEW r \in Readers, Read(r) PROVE ViewInv'
    BY <2>3, StartsView, FetchesView, AppliesView, Zenon DEF Read
  <2>4. ASSUME Lapse \/ \E h \in Hosts : Register(h) \/ Remove(h) \/ Detach(h) PROVE ViewInv'
    BY <2>4, HostsView, Zenon
  <2>5. ASSUME NEW h \in Hosts, Serve(h) PROVE ViewInv'
    BY <2>5, ServesView
  <2>6. ASSUME NEW v \in Vms, AgentLoop(v) PROVE ViewInv'
    BY <2>6, LoopsView
  <2>7. ASSUME Faults PROVE ViewInv'
    BY <2>7, CrashesView, HostsView, SkipsView, LoopsView, FetchesView, Zenon DEF Faults
  <2> QED BY <1>4, <2>1, <2>2, <2>3, <2>4, <2>5, <2>6, <2>7, Zenon DEF Next
<1> QED BY <1>3, <1>4

(***************************************************************************)
(* Deletion and expiry.                                                    *)
(***************************************************************************)
\* A start or a stop began on an environment that was not being deleted, and holds its lock.
Held == op.kind \in {"start", "stop"} => env.state # "deleting"

\* What a step may do to a deletion, and when an expiry may begin.
Lawful ==
  /\ env.state = "deleting" => env'.state \in {"deleting", "none"}
  /\ op'.kind \in {"start", "stop"} => env'.state # "deleting"
  /\ op'.kind = "expire" /\ op.kind # "expire" => env.due \/ env.state = "deleting"

LEMMA UpdatedStands ==
  ASSUME TypeOK
  PROVE  /\ env.state = "deleting" => Updated = env
         /\ Updated.state = "deleting" => env.state = "deleting"
<1>1. Summary # "deleting"
  BY Zenon DEF Summary
<1>2. [env EXCEPT !.state = Summary].state = Summary
  BY DEF TypeOK, EnvType
<1> QED BY <1>1, <1>2 DEF Updated

LEMMA LawfulFrame ==
  ASSUME TypeOK, Held, UNCHANGED env, op'.kind \in {op.kind, "none"}
  PROVE  Lawful
BY DEF TypeOK, EnvType, Held, Lawful

LEMMA LawfulBegins ==
  ASSUME TypeOK, Held,
         \/ BeginCreate \/ BeginDelete \/ BeginStop \/ BeginStart
         \/ \E v \in Vms, t \in Sizes : BeginResize(v, t)
         \/ BeginExpire
  PROVE  Lawful
<1> USE DEF database
<1>1. ASSUME BeginCreate PROVE Lawful
  BY <1>1 DEF BeginCreate, Lawful, NoOp, TypeOK, EnvType
<1>2. ASSUME BeginStop \/ BeginStart PROVE Lawful
  BY <1>2 DEF BeginStop, BeginStart, Settled, Lawful, NoOp, TypeOK, EnvType
<1>3. ASSUME NEW v \in Vms, NEW t \in Sizes, BeginResize(v, t) PROVE Lawful
  BY <1>3 DEF BeginResize, Settled, Lawful, NoOp, TypeOK, EnvType
<1>4. ASSUME NEW kind \in {"delete", "expire"}, StartsDeleting(kind), kind = "expire" => MayExpire
      PROVE  Lawful
  BY <1>4 DEF StartsDeleting, MayExpire, Lawful, NoOp, TypeOK, EnvType
<1>5. ASSUME BeginDelete PROVE Lawful
  BY <1>4, <1>5 DEF BeginDelete
<1>6. ASSUME BeginExpire PROVE Lawful
  BY <1>4, <1>6, LawfulFrame DEF BeginExpire
<1> QED BY <1>1, <1>2, <1>3, <1>5, <1>6

LEMMA LawfulOperation ==
  ASSUME TypeOK, TrackInv, Held, OperationStep
  PROVE  Lawful
<1> USE DEF database
<1>1. Drop => op'.kind = "none"
  BY DEF Drop, NoOp
<1>2. op \in OpType
  BY DEF TypeOK
<1>3. ASSUME Reserve PROVE Lawful
  BY <1>2, <1>3, LawfulFrame DEF Reserve, OpType
<1>4. ASSUME Plan PROVE Lawful
  <2>1. CASE Drop /\ UNCHANGED env
    BY <1>1, <2>1, LawfulFrame
  <2>2. CASE env.state = "none" /\ env'.state = "creating" /\ op'.kind = op.kind
    BY <2>2, <1>4 DEF Lawful
  <2>3. ASSUME NEW new, env' = [state |-> "creating", due |-> FALSE],
               op' = [op EXCEPT !.step = "send", !.todo = new]
        PROVE  env'.state = "creating" /\ op'.kind = op.kind
    BY <1>2, <2>3 DEF OpType
  <2> QED BY <1>4, <2>1, <2>2, <2>3, Zenon DEF Plan
<1>5. ASSUME Ask PROVE Lawful
  <2>1. env' = env /\ (Drop \/ \E t : op' = [op EXCEPT !.step = "send", !.todo = t, !.saved = vms])
    BY <1>5, Zenon DEF Ask
  <2>2. op'.kind \in {op.kind, "none"}
    BY <1>1, <1>2, <2>1 DEF OpType
  <2> QED BY <2>1, <2>2, LawfulFrame
<1>6. ASSUME SendsDone PROVE Lawful
  BY <1>2, <1>6, LawfulFrame DEF SendsDone, OpType
<1>7. ASSUME NEW v \in Vms, Send(v) \/ SkipHost(v) PROVE Lawful
  BY <1>2, <1>7, LawfulFrame DEF Send, SkipHost, OpType
<1>8. ASSUME TakeCreated \/ TakeDeleted \/ TakeChanged \/ TakeResized PROVE Lawful
  <2>1. \E f : Continue(f)
    BY <1>8, Zenon DEF TakeCreated, TakeDeleted, TakeChanged, TakeResized
  <2> QED BY <1>2, <2>1, LawfulFrame DEF Continue, OpType
<1>9. ASSUME Conclude PROVE Lawful
  <2>1. env' = Concluded /\ op'.kind = "none" /\ op.kind # "none"
    BY <1>1, <1>9 DEF Conclude, TrackInv, StepInv
  <2>2. ASSUME env.state = "deleting" PROVE env'.state \in {"deleting", "none"}
    <3>1. op.kind \in {"create", "delete", "expire", "resize"}
      BY <1>2, <2>1, <2>2 DEF Held, OpType, AllKinds
    <3> QED BY <2>1, <2>2, <3>1, UpdatedStands DEF Concluded, Deletes
  <2> QED BY <2>1, <2>2 DEF Lawful
<1> QED BY <1>3, <1>4, <1>5, <1>6, <1>7, <1>8, <1>9, Zenon DEF OperationStep

LEMMA LawfulReads ==
  ASSUME TypeOK, Held, NEW r \in Readers, Read(r)
  PROVE  Lawful
<1> USE DEF database
<1>1. op \in OpType
  BY DEF TypeOK
<1>2. ASSUME EndRead(r) PROVE Lawful
  <2>1. op'.kind = op.kind /\ env' \in {env, Updated}
    BY <1>1, <1>2 DEF EndRead, OpType
  <2> QED BY <2>1, UpdatedStands DEF Lawful, Held
<1>3. ASSUME StartRead(r) \/ \E h \in Hosts : Fetch(r, h) \/ Apply(r, h) PROVE Lawful
  <2>1. UNCHANGED <<env, op>>
    BY <1>3, Zenon DEF StartRead, Fetch, Apply
  <2> QED BY <2>1, LawfulFrame
<1> QED BY <1>2, <1>3 DEF Read

LEMMA LawfulRest ==
  ASSUME TypeOK, Held,
         \/ Sweep \/ Lapse \/ Retain \/ Faults
         \/ \E v \in Vms : Inspect(v) \/ AgentLoop(v)
         \/ \E h \in Hosts : Register(h) \/ Remove(h) \/ Detach(h) \/ Serve(h)
  PROVE  Lawful
<1>1. ASSUME UNCHANGED env, UNCHANGED op \/ op' = NoOp PROVE Lawful
  BY <1>1, LawfulFrame DEF NoOp
<1>2. ASSUME NEW v \in Vms, SendFails(v) PROVE Lawful
  <2>1. UNCHANGED env /\ op'.kind = op.kind
    BY <1>2 DEF SendFails, database, TypeOK, OpType
  <2> QED BY <2>1, LawfulFrame
<1>3. ASSUME Lapse PROVE Lawful
  BY <1>3 DEF Lapse, process, Lawful, Held, TypeOK, EnvType
<1>4. ASSUME NEW h \in Hosts, Detach(h) PROVE Lawful
  BY <1>4 DEF Detach, Lawful, Held, TypeOK, EnvType
<1>5. ASSUME NEW h \in Hosts, Serve(h) PROVE Lawful
  <2>1. UNCHANGED <<env, op>>
    BY <1>5, Zenon DEF Serve, Reject, Acknowledge, Undertake, TurnDown, StopGuest, Complete, Fail,
                       Reply, WorkOn, database, process
  <2> QED BY <1>1, <2>1
<1>6. ASSUME \/ Sweep \/ Retain \/ \E v \in Vms : Inspect(v) \/ AgentLoop(v)
             \/ \E h \in Hosts : Register(h) \/ Remove(h)
      PROVE  Lawful
  <2>1. UNCHANGED <<env, op>>
    BY <1>6, Zenon DEF Sweep, Retain, Inspect, AgentLoop, Reconcile, ResumeDelete, Register, Remove,
                       database, process
  <2> QED BY <1>1, <2>1
<1>7. ASSUME \/ Timeout \/ CrashController \/ Elsewhere
             \/ \E v \in Vms : GuestEnds(v) \/ Revives(v)
             \/ \E h \in Hosts : CrashAgent(h) \/ \E r \in Readers : FetchFails(r, h)
      PROVE  Lawful
  <2>1. UNCHANGED env /\ (UNCHANGED op \/ op' = NoOp)
    BY <1>7, Zenon DEF Timeout, CrashController, Elsewhere, GuestEnds, Revives, CrashAgent,
                       FetchFails, database, process
  <2> QED BY <1>1, <2>1
<1> QED BY <1>2, <1>3, <1>4, <1>5, <1>6, <1>7, Zenon DEF Faults

LEMMA LawfulStep ==
  ASSUME TypeOK, TrackInv, Held, [Next]_vars
  PROVE  Lawful
<1>1. CASE UNCHANGED vars
  BY <1>1, LawfulFrame DEF vars, database, process
<1>2. CASE Next
  BY <1>2, LawfulBegins, LawfulOperation, LawfulReads, LawfulRest, Zenon DEF Next, Client
<1> QED BY <1>1, <1>2

(***************************************************************************)
(* The theorems.                                                           *)
(***************************************************************************)
\* The queues, the operation and the rows stay consistent with each other, and every variable
\* holds a value of its kind, through any operations, refreshes, failures and restarts.
THEOREM TrackInvariant == Spec => [](TypeOK /\ TrackInv)
<1>1. Init => TypeOK /\ TrackInv
  BY TypeInit, TrackInit
<1>2. TypeOK /\ TrackInv /\ [Next]_vars => TypeOK' /\ TrackInv'
  BY TypeStep, TrackStep
<1> QED BY <1>1, <1>2, PTL DEF Spec

\* Every variable of the controller and of its agents holds a value of its kind.
THEOREM TypeCorrect == Spec => []TypeOK
BY TrackInvariant, PTL

\* No VM that an agent has, or has accepted to create, is ever lost from the controller's rows
\* before its agent confirmed the deletion or its host was detached.
THEOREM Tracking == Spec => []VmsTracked
<1>1. TrackInv => VmsTracked
  BY DEF TrackInv
<1> QED BY <1>1, TrackInvariant, PTL

\* A start or a stop never holds the lock of an environment that is being deleted.
THEOREM HeldInvariant == Spec => []Held
<1>1. Init => Held
  BY DEF Init, NoOp, Held
<1>2. TypeOK /\ TrackInv /\ Held /\ [Next]_vars => Held'
  BY LawfulStep DEF Lawful, Held
<1> QED BY <1>1, <1>2, TrackInvariant, PTL DEF Spec

\* An update of the environment's state, by whichever operation, refresh or detachment, never
\* undoes a deletion.
THEOREM DeletionsStand == Spec => DeletionStands
<1>1. TypeOK /\ TrackInv /\ Held /\ [Next]_vars =>
        [env.state = "deleting" => env'.state \in {"deleting", "none"}]_vars
  BY LawfulStep DEF Lawful
<1> QED BY <1>1, TrackInvariant, HeldInvariant, PTL DEF Spec, DeletionStands

\* Expiry begins only on an environment whose own lifetime is over, or whose deletion had begun,
\* however old the list it works from is.
THEOREM ExpiriesAreDue == Spec => ExpiryRespectsLifetime
<1>1. TypeOK /\ TrackInv /\ Held /\ [Next]_vars =>
        [op'.kind = "expire" /\ op.kind # "expire" => env.due \/ env.state = "deleting"]_vars
  BY LawfulStep DEF Lawful
<1> QED BY <1>1, TrackInvariant, HeldInvariant, PTL DEF Spec, ExpiryRespectsLifetime

\* Without backup inspections the rows, what refreshes have heard and what operations were answered
\* or wrote down stay in order with what the agents have done.
THEOREM ViewInvariant == ASSUME MaxInspections = 0 PROVE Spec => []ViewInv
<1>1. Init => ViewInv
  BY ViewInit
<1>2. TypeOK /\ TrackInv /\ ViewInv /\ [Next]_vars => ViewInv'
  BY ViewStep
<1> QED BY <1>1, <1>2, TrackInvariant, PTL DEF Spec

\* Without backup inspections no refresh and no operation overwrites a recorded answer with an
\* observation made before it.
THEOREM AnswersKept == ASSUME MaxInspections = 0 PROVE Spec => []ConfirmedKept
<1>1. ViewInv => ConfirmedKept
  BY DEF ViewInv, RowInv, ConfirmedKept
<1> QED BY <1>1, ViewInvariant, PTL

\* Without backup inspections the target of a resize that an agent has begun, or may yet carry
\* out, is never lost from the controller's rows.
THEOREM ResizesKept == ASSUME MaxInspections = 0 PROVE Spec => []ResizeRecorded
<1>1. ViewInv => ResizeRecorded
  BY DEF ViewInv, RowInv, ResizeRecorded
<1> QED BY <1>1, ViewInvariant, PTL
=============================================================================
