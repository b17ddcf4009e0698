--------------------------- MODULE Engines_proofs ---------------------------
(***************************************************************************)
(* The five engines, for any process ids and any number of failures, crashes *)
(* and reboots: a VM executes once, what identifies it is on disk, nobody    *)
(* else's process is signalled, and the engines implement VmEngine.          *)
(***************************************************************************)
EXTENDS Engines, FiniteSetTheorems, TLAPS

AllKinds == {"qemu", "firecracker", "docker", "bhyve", "jail"}
Steps0 == {"check", "seed", "clear", "cleanup", "record", "lay", "launch", "pidfile", "boot", "verify",
           "resume", "find", "powerdown", "terminate", "device", "devfs", "files", "done"}
Ops == [call : Calls \union {None}, at : Steps0 \union {None}, pid : Pids \union {None, "container"}]

\* The steps each call takes with each engine.
StepRule(c, a, k) ==
  \/ c = None /\ a = None
  \/ c = "create" /\ \/ a \in {"check", "launch"}
                     \/ a \in {"seed", "clear", "done"} /\ k = "qemu"
                     \/ a = "cleanup" /\ k = "firecracker"
                     \/ a = "device" /\ k = "bhyve"
                     \/ a \in {"record", "lay"} /\ k \in {"firecracker", "bhyve", "jail"}
                     \/ a \in {"pidfile", "boot"} /\ k \in {"firecracker", "bhyve"}
                     \/ a = "verify" /\ k \in {"docker", "jail"}
  \/ c = "start" /\ (a = "resume" \/ (a = "verify" /\ k = "docker"))
  \/ c = "state" /\ a = "find"
  \/ c \in {"stop", "destroy"} /\ \/ a \in {"find", "terminate"}
                                  \/ a = "powerdown" /\ k \in {"qemu", "firecracker"}
                                  \/ a = "device" /\ k = "bhyve"
                                  \/ a = "devfs" /\ k = "jail"
  \/ c = "stop" /\ a = "done"
  \/ c = "destroy" /\ (a = "files" \/ (a = "cleanup" /\ k = "firecracker"))

\* What each engine keeps on the host.
Holds(k) ==
  CASE k = "qemu" -> {"seed", "monitor", "pid"}
    [] k = "firecracker" -> {"sandbox", "jail", "log", "pid"}
    [] k = "docker" -> {"container"}
    [] k = "bhyve" -> {"disk", "device", "log", "pid"}
    [] OTHER -> {"root", "conf", "devfs"}

EngineType ==
  /\ kind \in AllKinds /\ kind \in Kinds
  /\ proc \in [Pids -> {"free", "guest", "other"}]
  /\ mode \in {"booting", "running", "paused"}
  /\ pidFile \in Pids \union {None}
  /\ held \subseteq Holds(kind)
  /\ op \in Ops /\ StepRule(op.call, op.at, kind)
  /\ op.at = "pidfile" => op.pid \in Pids
  /\ reply.call \in Calls \union {None}
  /\ doomed \in BOOLEAN /\ late \in {None, "pending", "came"}
  /\ faults \in 0..MaxFaults /\ crashes \in 0..MaxCrashes

\* Once a deletion has begun there are no other calls. A launch outlives its
\* agent where it is a command of its own.
CallInv ==
  /\ op.call = "destroy" => doomed
  /\ doomed => op.call \in {"destroy", None}
  /\ late # None => kind \in {"docker", "jail", "bhyve"}

\* Where no name protects the guest, its creation has seen that there is none.
OnceInv ==
  /\ \A p, q \in Guests : p = q
  /\ kind = "docker" /\ Guests # {} => "container" \in held
  /\ kind \in {"qemu", "firecracker", "bhyve"} /\ op.call = "create"
       /\ op.at \in {"seed", "clear", "cleanup", "device", "record", "lay", "launch"} => Guests = {}

\* What is laid out first and removed last, and so identifies the guest.
Anchored ==
  /\ kind = "qemu" => "seed" \in held
  /\ kind = "firecracker" => "sandbox" \in held
  /\ kind = "docker" => "container" \in held
  /\ kind = "bhyve" => "disk" \in held
  /\ kind = "jail" => "root" \in held
AnchorInv ==
  /\ late # "came" /\ Guests # {} => Anchored
  /\ op.call = "create" /\ op.at \in {"clear", "lay", "launch"} /\ kind # "docker" => Anchored
  /\ late = "pending" /\ ~doomed /\ kind # "docker" => Anchored
DeviceInv ==
  late # "came" \/ ~doomed =>
    /\ kind = "jail" /\ "devfs" \in held => "root" \in held
    /\ kind = "bhyve" /\ "device" \in held => "disk" \in held
    /\ kind = "firecracker" /\ "jail" \in held => "sandbox" \in held

\* What a stop or a deletion has behind it.
EndInv ==
  late # "came" /\ op.call \in {"stop", "destroy"} =>
    /\ op.at \in {"powerdown", "terminate"} /\ kind \in {"qemu", "firecracker"} => Guests \subseteq {op.pid}
    /\ op.at \in {"cleanup", "device", "devfs", "done"} \/ (op.at = "files" /\ kind # "docker") => Guests = {}
    /\ op.at = "files" => held \intersect {"jail", "device", "devfs"} = {}

EngineInv == EngineType /\ CallInv /\ OnceInv /\ AnchorInv /\ DeviceInv /\ EndInv

-----------------------------------------------------------------------------

LEMMA EngineInit == Init => EngineInv
<1> SUFFICES ASSUME Init PROVE EngineInv
  OBVIOUS
<1>1. Idle \in Ops /\ Idle.call = None /\ Idle.at = None /\ Silent.call = None
  BY DEF Idle, Ops, Silent
<1>2. Guests = {}
  BY DEF Init, Guests
<1>3. kind \in AllKinds /\ kind \in Kinds /\ faults \in 0..MaxFaults /\ crashes \in 0..MaxCrashes
  BY EnginesAssumption DEF Init, AllKinds
<1>4. op = Idle /\ StepRule(op.call, op.at, kind) /\ op.at # "pidfile" /\ reply.call = None
  BY <1>1 DEF Init, StepRule, None
<1>5. EngineType
  BY <1>1, <1>3, <1>4 DEF Init, EngineType, None
<1>6. CallInv /\ OnceInv /\ AnchorInv /\ DeviceInv /\ EndInv
  BY <1>1, <1>2 DEF Init, CallInv, OnceInv, AnchorInv, DeviceInv, EndInv, None
<1> QED BY <1>5, <1>6 DEF EngineInv

\* What a query finds: the only guest, none, or no answer.
LEMMA Finds ==
  ASSUME EngineInv
  PROVE  /\ Found = {None} => Guests = {}
         /\ kind # "docker" => Found \ {None} \subseteq Guests
         /\ kind = "docker" => Found \ {None} \subseteq {"container"}
         /\ None \notin Guests
<1>1. Guests \subseteq Pids /\ None \notin Pids
  BY EnginesAssumption DEF Guests, None
<1>2. CASE kind = "docker"
  BY <1>1, <1>2 DEF Found, EngineInv, OnceInv, None
<1>3. CASE kind # "docker"
  BY <1>1, <1>3 DEF Found, Recovered
<1> QED BY <1>1, <1>2, <1>3

\* A call that ends, by itself or with its agent, and leaves the host as it is.
LEMMA Answered ==
  ASSUME EngineInv, UNCHANGED Host, op' = Idle, reply'.call \in Calls \union {None}, UNCHANGED <<kind, doomed, late>>,
         faults' \in 0..MaxFaults, crashes' \in 0..MaxCrashes
  PROVE  EngineInv'
<1>1. Idle \in Ops /\ Idle.call = None /\ Idle.at = None
  BY DEF Idle, Ops
<1>2. Guests' = Guests
  BY DEF Host, Guests
<1>3. EngineType'
  BY <1>1 DEF EngineInv, EngineType, StepRule, Host, None
<1>4. CallInv' /\ OnceInv'
  BY <1>1, <1>2 DEF EngineInv, CallInv, OnceInv, Host, None
<1>5. AnchorInv' /\ DeviceInv' /\ EndInv'
  BY <1>1, <1>2 DEF EngineInv, AnchorInv, DeviceInv, EndInv, Anchored, Host
<1> QED BY <1>3, <1>4, <1>5 DEF EngineInv

\* Refusals and failures are answers of the call under way.
LEMMA ErrorAnswers ==
  ASSUME EngineInv, op.call # None, NEW said, Say(said), Sound \/ Fault
  PROVE  op' = Idle /\ reply'.call = op.call /\ reply'.call \in Calls /\ faults' \in 0..MaxFaults
<1>1. op.call \in Calls /\ faults \in 0..MaxFaults
  BY DEF EngineInv, EngineType, Ops
<1> QED BY <1>1, EnginesAssumption DEF Say, Sound, Fault

-----------------------------------------------------------------------------
(* Each step of a call keeps the invariant, and so does what happens beside *)

LEMMA KeepsCheck == EngineInv /\ Check /\ Stays => EngineInv'
<1> SUFFICES ASSUME EngineInv, Check, Stays PROVE EngineInv'
  OBVIOUS
<1>1. EngineType'
  BY EnginesAssumption DEF EngineInv, EngineType, Ops, StepRule, Check, AfterCheck, Go, Refuse, Fail, Say, Stays,
     Sound, Fault, Host, Idle, None, Steps0
<1>2. CallInv'
  BY DEF EngineInv, EngineType, Ops, Check, Go, Refuse, Fail, Say, Stays, Idle, None, CallInv
<1>3. OnceInv'
  BY Finds DEF OnceInv, Guests, EngineInv, Check, Refuse, Fail, Say, Stays, Host, Idle
<1>4. AnchorInv'
  BY DEF EngineInv, EngineType, Ops, Check, AfterCheck, Go, Refuse, Fail, Say, Stays, Host, Idle, AnchorInv, Guests,
     Anchored
<1>5. DeviceInv'
  BY DEF EngineInv, EngineType, AllKinds, Check, Host, None, DeviceInv, CallInv, Holds
<1>6. EndInv'
  BY DEF EngineInv, EngineType, Ops, Check, Go, Refuse, Fail, Say, Idle, EndInv
<1> QED BY <1>1, <1>2, <1>3, <1>4, <1>5, <1>6 DEF EngineInv

LEMMA KeepsSeed == EngineInv /\ Seed /\ Stays => EngineInv'
<1> SUFFICES ASSUME EngineInv, Seed, Stays PROVE EngineInv'
  OBVIOUS
<1>1. EngineType'
  BY EnginesAssumption DEF EngineInv, EngineType, Ops, StepRule, Seed, Go, Fail, Say, Stays, Sound, Fault, Guest,
     At, Idle, None, Holds, Steps0
<1>2. CallInv'
  BY DEF EngineInv, EngineType, Ops, Seed, Go, Fail, Say, Stays, Idle, None, CallInv
<1>3. OnceInv'
  BY DEF EngineInv, EngineType, StepRule, Seed, Guest, At, None, OnceInv, Guests
<1>4. AnchorInv'
  BY DEF EngineInv, Seed, Fail, Say, Stays, Guest, Idle, AnchorInv, Guests, Anchored
<1>5. DeviceInv'
  BY DEF EngineInv, EngineType, Seed, DeviceInv, Holds
<1>6. EndInv'
  BY DEF EngineInv, EngineType, StepRule, Seed, Guest, At, None, OnceInv, EndInv, Guests, Holds
<1> QED BY <1>1, <1>2, <1>3, <1>4, <1>5, <1>6 DEF EngineInv

LEMMA KeepsClear == EngineInv /\ Clear /\ Stays => EngineInv'
<1> SUFFICES ASSUME EngineInv, Clear, Stays PROVE EngineInv'
  OBVIOUS
<1>1. EngineType'
  BY EnginesAssumption DEF EngineInv, EngineType, Ops, StepRule, Clear, Go, Stays, Sound, Guest, At, None, Steps0
<1>2. CallInv'
  BY DEF EngineInv, Clear, Go, Stays, CallInv
<1>3. OnceInv'
  BY DEF EngineInv, EngineType, StepRule, Clear, Guest, At, None, OnceInv, Guests
<1>4. AnchorInv'
  BY DEF EngineInv, EngineType, StepRule, Clear, Stays, At, None, AnchorInv, Anchored
<1>5. DeviceInv'
  BY DEF EngineInv, EngineType, Clear, DeviceInv, Holds
<1>6. EndInv'
  BY DEF Clear, Go, EndInv
<1> QED BY <1>1, <1>2, <1>3, <1>4, <1>5, <1>6 DEF EngineInv

LEMMA KeepsCleanJail == EngineInv /\ CleanJail /\ Stays => EngineInv'
<1> SUFFICES ASSUME EngineInv, CleanJail, Stays PROVE EngineInv'
  OBVIOUS
<1>1. EngineType'
  BY EnginesAssumption DEF EngineInv, EngineType, Ops, StepRule, CleanJail, Go, Fail, Say, Stays, Sound, Fault,
     Guest, At, Idle, None, Steps0
<1>2. CallInv'
  BY DEF EngineInv, EngineType, Ops, CleanJail, Go, Fail, Say, Stays, Idle, None, CallInv
<1>3. OnceInv'
  BY DEF EngineInv, EngineType, StepRule, CleanJail, Guest, At, None, OnceInv, EndInv, Guests, CallInv
<1>4. AnchorInv'
  BY DEF EngineInv, EngineType, Ops, CleanJail, Go, Fail, Say, Stays, Guest, Idle, AnchorInv, Guests, Anchored
<1>5. DeviceInv'
  BY DEF EngineInv, EngineType, CleanJail, None, DeviceInv, CallInv, Holds
<1>6. EndInv'
  BY DEF EngineInv, EngineType, StepRule, CleanJail, Fail, Say, Guest, At, Idle, None, OnceInv, EndInv, DeviceInv,
     Guests, CallInv, Holds
<1> QED BY <1>1, <1>2, <1>3, <1>4, <1>5, <1>6 DEF EngineInv

LEMMA KeepsRecord == EngineInv /\ Record /\ Stays => EngineInv'
<1> SUFFICES ASSUME EngineInv, Record, Stays PROVE EngineInv'
  OBVIOUS
<1>1. EngineType'
  BY EnginesAssumption DEF EngineInv, EngineType, Ops, StepRule, Record, Credential, Go, Fail, Say, Stays, Sound,
     Fault, Guest, At, Idle, None, Holds, Steps0
<1>2. CallInv'
  BY DEF EngineInv, EngineType, Ops, Record, Go, Fail, Say, Stays, Idle, None, CallInv
<1>3. OnceInv'
  BY DEF EngineInv, EngineType, StepRule, Record, Stays, Guest, At, None, OnceInv, Guests
<1>4. AnchorInv'
  BY DEF EngineInv, Record, Credential, Fail, Say, Stays, Guest, Idle, AnchorInv, Guests, Anchored
<1>5. DeviceInv'
  BY DEF EngineInv, EngineType, StepRule, Record, Credential, At, None, DeviceInv, CallInv, Holds
<1>6. EndInv'
  BY DEF EngineInv, EngineType, Ops, Record, Go, Fail, Say, Idle, EndInv
<1> QED BY <1>1, <1>2, <1>3, <1>4, <1>5, <1>6 DEF EngineInv

LEMMA KeepsLay == EngineInv /\ Lay /\ Stays => EngineInv'
<1> SUFFICES ASSUME EngineInv, Lay, Stays PROVE EngineInv'
  OBVIOUS
<1>1. EngineType'
  BY EnginesAssumption DEF EngineInv, EngineType, Ops, StepRule, Lay, Laid, Go, Fail, Say, Stays, Sound, Fault,
     Guest, At, Idle, None, Holds, Steps0
<1>2. CallInv'
  BY DEF EngineInv, EngineType, Ops, Lay, Go, Fail, Say, Stays, Idle, None, CallInv
<1>3. OnceInv'
  BY DEF EngineInv, EngineType, StepRule, Lay, Stays, Guest, At, None, OnceInv, Guests
<1>4. AnchorInv'
  BY DEF EngineInv, EngineType, StepRule, Lay, Stays, At, None, AnchorInv, Anchored
<1>5. DeviceInv'
  BY DEF EngineInv, EngineType, StepRule, Lay, Laid, At, None, AnchorInv, DeviceInv, Anchored, Holds
<1>6. EndInv'
  BY DEF EngineInv, EngineType, Ops, Lay, Go, Fail, Say, Idle, EndInv
<1> QED BY <1>1, <1>2, <1>3, <1>4, <1>5, <1>6 DEF EngineInv

LEMMA KeepsLaunch == EngineInv /\ Launch /\ Stays => EngineInv'
<1> SUFFICES ASSUME EngineInv, Launch, Stays PROVE EngineInv'
  OBVIOUS
<1>0. op.call = "create" /\ op.at = "launch" /\ kind \in AllKinds /\ op \in Ops /\ held \subseteq Holds(kind)
      /\ proc \in [Pids -> {"free", "guest", "other"}]
  BY DEF Launch, At, EngineInv, EngineType, StepRule, None
<1>1. CASE UNCHANGED Host /\ (Refuse \/ Fail)
  <2>1. Say("err") /\ (Sound \/ Fault)
    BY <1>1 DEF Refuse, Fail
  <2> QED BY <1>0, <1>1, <2>1, ErrorAnswers, Answered DEF Stays, None, EngineInv, EngineType
<1>2. ASSUME NEW p \in Free, ~Taken, Launched(p),
             (op' = [op EXCEPT !.at = AfterLaunch[kind], !.pid = p] /\ UNCHANGED <<reply, faults>>) \/ Fail
      PROVE  EngineInv'
  <2>1. p \in Pids /\ Guests = {}
    BY <1>0, <1>2 DEF Free, Taken, EngineInv, OnceInv, AllKinds
  <2>2. Guests' = {p} /\ proc' \in [Pids -> {"free", "guest", "other"}]
    BY <1>0, <1>2, <2>1 DEF Launched, Guests
  <2>3. held' = held \union Started[kind] /\ held' \subseteq Holds(kind)
    BY <1>0, <1>2 DEF Launched, Started, Holds, AllKinds
  <2>4. pidFile' \in Pids \union {None} /\ mode' \in {"booting", "running", "paused"}
    BY <1>2, <2>1 DEF Launched, Named, EngineInv, EngineType
  <2>5. Anchored'
    BY <1>0, <2>3 DEF EngineInv, AnchorInv, Anchored, Stays, Started
  <2>6. op' = Idle \/ (op'.call = "create" /\ op'.at = AfterLaunch[kind] /\ op'.pid = p /\ op' \in Ops)
    <3>1. AfterLaunch[kind] \in {"done", "pidfile", "verify"}
      BY <1>0 DEF AfterLaunch, AllKinds
    <3> QED BY <1>0, <1>2, <2>1, <3>1 DEF Fail, Say, Ops, Steps0
  <2>7. EngineType'
    <3>1. op' \in Ops /\ StepRule(op'.call, op'.at, kind) /\ (op'.at = "pidfile" => op'.pid \in Pids)
      BY <1>0, <2>1, <2>6 DEF StepRule, AfterLaunch, AllKinds, Idle, Ops, None
    <3>2. reply'.call \in Calls \union {None} /\ faults' \in 0..MaxFaults
      <4>1. CASE Fail
        BY <1>0, <4>1, ErrorAnswers DEF Fail, None
      <4>2. CASE UNCHANGED <<reply, faults>>
        BY <4>2 DEF EngineInv, EngineType
      <4> QED BY <1>2, <4>1, <4>2
    <3> QED BY <1>0, <2>2, <2>3, <2>4, <3>1, <3>2 DEF EngineInv, EngineType, Stays
  <2>8. CallInv'
    BY <1>0, <2>6 DEF EngineInv, CallInv, Stays, Idle, None
  <2>9. OnceInv'
    BY <1>0, <2>2, <2>5, <2>6 DEF OnceInv, Idle, AfterLaunch, AllKinds, Anchored
  <2>10. AnchorInv'
    BY <2>5 DEF AnchorInv
  <2>11. DeviceInv'
    BY <1>0, <2>3, <2>5 DEF DeviceInv, Anchored
  <2>12. EndInv'
    BY <1>0, <2>6 DEF EndInv, Idle, None
  <2> QED BY <2>7, <2>8, <2>9, <2>10, <2>11, <2>12 DEF EngineInv
<1>3. CASE Fail /\ UNCHANGED <<Guest, pidFile>> /\ held' \in {held, held \cup (IF kind \in {"docker", "jail"} THEN Started[kind] ELSE {})}
  <2>1. held \subseteq held' /\ held' \subseteq Holds(kind)
    BY <1>0, <1>3 DEF Started, Holds, AllKinds
  <2>2. op' = Idle /\ Guests' = Guests /\ reply'.call = "create" /\ faults' \in 0..MaxFaults
    BY <1>0, <1>3, EnginesAssumption DEF Fail, Say, Fault, Guest, Guests, EngineInv, EngineType
  <2>3. DeviceInv'
    BY <1>0, <1>3, <2>1 DEF DeviceInv, EngineInv, AnchorInv, Anchored, Stays
  <2>4. EngineType'
    BY <1>0, <1>3, <2>1, <2>2 DEF EngineInv, EngineType, Ops, StepRule, Stays, Guest, Idle, None
  <2>5. CallInv' /\ OnceInv' /\ AnchorInv' /\ EndInv'
    BY <1>0, <2>1, <2>2 DEF EngineInv, CallInv, OnceInv, AnchorInv, EndInv, Anchored, Stays, Idle, None
  <2> QED BY <2>3, <2>4, <2>5 DEF EngineInv
<1> QED BY <1>1, <1>2, <1>3 DEF Launch, GoWith, Sound

LEMMA KeepsWritePid == EngineInv /\ WritePid /\ Stays => EngineInv'
<1> SUFFICES ASSUME EngineInv, WritePid, Stays PROVE EngineInv'
  OBVIOUS
<1>1. EngineType'
  BY EnginesAssumption DEF EngineInv, EngineType, Ops, StepRule, WritePid, Go, Fail, Say, Ends, Stays, Sound, Fault,
     Guest, At, Idle, None, Holds, Steps0
<1>2. CallInv'
  BY DEF EngineInv, EngineType, Ops, WritePid, Go, Fail, Say, Stays, Idle, None, CallInv
<1>3. OnceInv'
  BY DEF EngineInv, EngineType, Ops, WritePid, Go, Fail, Say, Ends, Stays, Guest, Idle, OnceInv, Guests
<1>4. AnchorInv'
  BY DEF EngineInv, EngineType, Ops, WritePid, Go, Fail, Say, Stays, Guest, Idle, AnchorInv, Guests, Anchored
<1>5. DeviceInv'
  BY DEF EngineInv, EngineType, StepRule, WritePid, At, None, DeviceInv, CallInv, Holds
<1>6. EndInv'
  BY DEF EngineInv, EngineType, Ops, WritePid, Go, Fail, Say, Idle, EndInv
<1> QED BY <1>1, <1>2, <1>3, <1>4, <1>5, <1>6 DEF EngineInv

LEMMA KeepsBoot == EngineInv /\ Boot /\ Stays => EngineInv'
<1> SUFFICES ASSUME EngineInv, Boot, Stays PROVE EngineInv'
  OBVIOUS
<1>1. op.call # None /\ UNCHANGED Host /\ (\E said : Say(said)) /\ (Sound \/ Fault)
  BY DEF Boot, Refuse, Fail, None
<1> QED BY <1>1, ErrorAnswers, Answered DEF Stays, EngineInv, EngineType

LEMMA KeepsResume == EngineInv /\ Resume /\ Stays => EngineInv'
<1> SUFFICES ASSUME EngineInv, Resume, Stays PROVE EngineInv'
  OBVIOUS
<1>1. EngineType'
  BY EnginesAssumption DEF EngineInv, EngineType, Ops, StepRule, Resume, Begins, Go, Refuse, Fail, Say, Stays,
     Sound, Fault, Guest, Idle, None, Steps0
<1>2. CallInv'
  BY DEF EngineInv, EngineType, Ops, Resume, Go, Refuse, Fail, Say, Stays, Idle, None, CallInv
<1>3. OnceInv'
  BY DEF EngineInv, EngineType, Resume, Resumable, Begins, Refuse, Fail, Say, Stays, Guest, Idle, OnceInv, Guests
<1>4. AnchorInv'
  BY DEF EngineInv, Resume, Resumable, Refuse, Fail, Say, Stays, Guest, Idle, AnchorInv, Guests, Anchored
<1>5. DeviceInv'
  BY DEF EngineInv, EngineType, AllKinds, Resume, None, DeviceInv, CallInv, Holds
<1>6. EndInv'
  BY DEF EngineInv, EngineType, Ops, Resume, Go, Refuse, Fail, Say, Idle, EndInv
<1> QED BY <1>1, <1>2, <1>3, <1>4, <1>5, <1>6 DEF EngineInv

LEMMA KeepsFind == EngineInv /\ Find /\ Stays => EngineInv'
<1> SUFFICES ASSUME EngineInv, Find, Stays PROVE EngineInv'
  OBVIOUS
<1>0. op.call \in {"stop", "destroy"} /\ op.at = "find" /\ kind \in AllKinds /\ op \in Ops /\ UNCHANGED Host /\ Guests' = Guests
  BY DEF Find, At, EngineInv, EngineType, Host, Guests
<1>1. CASE Refuse \/ Fail
  <2>1. Say("err") /\ (Sound \/ Fault)
    BY <1>1 DEF Refuse, Fail
  <2> QED BY <1>0, <2>1, ErrorAnswers, Answered DEF Stays, None, EngineInv, EngineType
<1>2. ASSUME NEW step, NEW p \in Pids \union {None, "container"}, op' = [op EXCEPT !.at = step, !.pid = p],
             UNCHANGED <<reply, faults>>, step \in Steps0 \ {"pidfile"}, StepRule(op.call, step, kind),
             step \in {"powerdown", "terminate"} /\ kind \in {"qemu", "firecracker"} => Guests \subseteq {p},
             step \in {"cleanup", "device", "devfs", "done"} \/ (step = "files" /\ kind # "docker") => Guests = {},
             step = "files" => kind \in {"docker", "qemu"}
      PROVE  EngineInv'
  <2>1. op' \in Ops /\ op'.call = op.call /\ op'.at = step /\ op'.pid = p
    BY <1>0, <1>2 DEF Ops
  <2>2. EngineType'
    BY <1>0, <1>2, <2>1 DEF EngineInv, EngineType, Stays, Host
  <2>3. CallInv' /\ OnceInv' /\ AnchorInv' /\ DeviceInv'
    BY <1>0, <2>1 DEF EngineInv, CallInv, OnceInv, AnchorInv, DeviceInv, Anchored, Stays, Host
  <2>4. EndInv'
    BY <1>0, <1>2, <2>1 DEF EngineInv, EngineType, EndInv, Stays, Host, Holds
  <2> QED BY <2>2, <2>3, <2>4 DEF EngineInv
<1>3. CASE Found = {None} /\ Go(AfterExit) /\ Sound
  <2>1. Guests = {}
    BY <1>3, Finds
  <2>2. op' = [op EXCEPT !.at = AfterExit, !.pid = op.pid] /\ op.pid \in Pids \union {None, "container"}
    BY <1>0, <1>3 DEF Go, Ops
  <2>3. AfterExit \in Steps0 \ {"pidfile", "powerdown", "terminate"} /\ StepRule(op.call, AfterExit, kind)
        /\ (AfterExit = "files" => kind \in {"docker", "qemu"})
    BY <1>0 DEF AfterExit, Rest, AllKinds, Steps0, StepRule
  <2> QED BY <1>2, <1>3, <2>1, <2>2, <2>3 DEF Go, Sound
<1>4. ASSUME NEW p \in Found \ {None}, GoWith(HowToEnd, p), Sound PROVE EngineInv'
  <2>1. HowToEnd \in {"powerdown", "terminate", "files"} /\ StepRule(op.call, HowToEnd, kind)
        /\ (HowToEnd = "files" => kind = "docker")
    BY <1>0 DEF HowToEnd, AllKinds, StepRule
  <2>2. kind \in {"qemu", "firecracker"} => Guests \subseteq {p}
    BY <1>4, Finds DEF EngineInv, OnceInv
  <2>3. p \in Pids \union {None, "container"}
    BY <1>4, Finds DEF Guests
  <2> QED BY <1>2, <1>4, <2>1, <2>2, <2>3 DEF GoWith, Sound, Steps0
<1> QED BY <1>1, <1>3, <1>4 DEF Find

LEMMA KeepsPowerdown == EngineInv /\ Powerdown /\ Stays => EngineInv'
<1> SUFFICES ASSUME EngineInv, Powerdown, Stays PROVE EngineInv'
  OBVIOUS
<1>1. EngineType'
  BY EnginesAssumption DEF EngineInv, EngineType, Ops, StepRule, Powerdown, Rest, Go, Fail, Say, Stays, Sound,
     Fault, At, Idle, None, Steps0
<1>2. CallInv'
  BY DEF EngineInv, EngineType, Ops, Powerdown, Go, Fail, Say, Stays, Idle, None, CallInv
<1>3. OnceInv'
  BY DEF EngineInv, EngineType, Ops, StepRule, Powerdown, Go, Fail, Say, Stays, At, Idle, OnceInv, Guests
<1>4. AnchorInv'
  BY DEF EngineInv, EngineType, Ops, Powerdown, Rest, Go, Fail, Say, Stays, Idle, AnchorInv, Guests, Anchored
<1>5. DeviceInv'
  BY DEF EngineInv, EngineType, StepRule, Powerdown, At, None, DeviceInv, CallInv, Holds
<1>6. EndInv'
  BY DEF EngineInv, EngineType, Ops, StepRule, Powerdown, Rest, Go, Fail, Say, At, Idle, None, EndInv, Guests,
     CallInv, Holds
<1> QED BY <1>1, <1>2, <1>3, <1>4, <1>5, <1>6 DEF EngineInv

LEMMA KeepsTerminate == EngineInv /\ Terminate /\ Stays => EngineInv'
<1> SUFFICES ASSUME EngineInv, Terminate, Stays PROVE EngineInv'
  OBVIOUS
<1>1. EngineType'
  BY EnginesAssumption DEF EngineInv, EngineType, Ops, StepRule, Terminate, Ends, AfterExit, Rest, Go, Fail, Say,
     Stays, Sound, Fault, Guest, Idle, None, Steps0
<1>2. CallInv'
  BY DEF EngineInv, EngineType, Ops, Terminate, Go, Fail, Say, Stays, Idle, None, CallInv
<1>3. OnceInv'
  BY DEF EngineInv, EngineType, Ops, Terminate, Ends, Go, Fail, Say, Stays, Guest, Idle, OnceInv, Guests
<1>4. AnchorInv'
  BY DEF EngineInv, EngineType, Ops, Terminate, Ends, Go, Fail, Say, Stays, Guest, Idle, AnchorInv, Guests, Anchored
<1>5. DeviceInv'
  BY DEF EngineInv, Terminate, Stays, DeviceInv
<1>6. EndInv'
  BY DEF EngineInv, EngineType, Ops, AllKinds, Terminate, Target, Ends, AfterExit, Rest, Go, Fail, Say, Guest, At,
     Idle, None, OnceInv, EndInv, Guests, CallInv, Holds
<1> QED BY <1>1, <1>2, <1>3, <1>4, <1>5, <1>6 DEF EngineInv

LEMMA KeepsUnload == EngineInv /\ Unload /\ Stays => EngineInv'
<1> SUFFICES ASSUME EngineInv, Unload, Stays PROVE EngineInv'
  OBVIOUS
<1>1. EngineType'
  BY EnginesAssumption DEF EngineInv, EngineType, Ops, StepRule, Unload, Rest, Go, Refuse, Fail, Say, Stays, Sound,
     Fault, Guest, At, Idle, None, Steps0
<1>2. CallInv'
  BY DEF EngineInv, EngineType, Ops, Unload, Go, Refuse, Fail, Say, Stays, Idle, None, CallInv
<1>3. OnceInv'
  BY DEF EngineInv, EngineType, Ops, Unload, Go, Refuse, Fail, Say, Stays, Guest, At, Idle, OnceInv, Guests
<1>4. AnchorInv'
  BY DEF EngineInv, EngineType, Ops, Unload, Go, Refuse, Fail, Say, Stays, Guest, Idle, AnchorInv, Guests, Anchored
<1>5. DeviceInv'
  BY DEF EngineInv, Unload, Stays, DeviceInv
<1>6. EndInv'
  BY DEF EngineInv, EngineType, StepRule, Unload, Fail, Say, Stays, Guest, At, Idle, None, OnceInv, EndInv,
     DeviceInv, Guests, Holds
<1> QED BY <1>1, <1>2, <1>3, <1>4, <1>5, <1>6 DEF EngineInv

LEMMA KeepsUnmount == EngineInv /\ Unmount /\ Stays => EngineInv'
<1> SUFFICES ASSUME EngineInv, Unmount, Stays PROVE EngineInv'
  OBVIOUS
<1>1. EngineType'
  BY EnginesAssumption DEF EngineInv, EngineType, Ops, StepRule, Unmount, Rest, Go, Fail, Say, Stays, Sound, Fault,
     Guest, At, Idle, None, Steps0
<1>2. CallInv'
  BY DEF EngineInv, EngineType, Ops, Unmount, Go, Fail, Say, Stays, Idle, None, CallInv
<1>3. OnceInv'
  BY DEF EngineInv, Unmount, Stays, Guest, OnceInv, Guests
<1>4. AnchorInv'
  BY DEF EngineInv, EngineType, Ops, Unmount, Rest, Go, Fail, Say, Stays, Guest, Idle, AnchorInv, Guests, Anchored
<1>5. DeviceInv'
  BY DEF EngineInv, Unmount, Stays, DeviceInv
<1>6. EndInv'
  BY DEF EngineInv, EngineType, StepRule, Unmount, Fail, Say, Stays, Guest, At, Idle, None, EndInv, DeviceInv,
     Guests, Holds
<1> QED BY <1>1, <1>2, <1>3, <1>4, <1>5, <1>6 DEF EngineInv

LEMMA KeepsRemove == EngineInv /\ Remove /\ Stays => EngineInv'
<1> SUFFICES ASSUME EngineInv, Remove, Stays PROVE EngineInv'
  OBVIOUS
<1>1. /\ op.call = "destroy" /\ op.at = "files" /\ doomed /\ op \in Ops
      /\ kind \in AllKinds \ {"docker"} /\ held \subseteq Holds(kind)
  BY DEF Remove, At, EngineInv, EngineType, StepRule, CallInv, None
<1>2. UNCHANGED <<proc, mode, kind, doomed, late, crashes>> /\ Guests' = Guests
  BY DEF Remove, Guest, Stays, Guests
<1>3. held' \subseteq held /\ pidFile' \in {pidFile, None}
  BY DEF Remove
<1>4. (op' = op /\ UNCHANGED <<reply, faults>>) \/ ((\E said : Say(said)) /\ (Sound \/ Fault))
  BY DEF Remove, Fail, Sound
<1>5. /\ (op' = op \/ op' = Idle) /\ Idle \in Ops /\ Idle.call = None /\ Idle.at = None
      /\ reply'.call \in Calls \union {None} /\ faults' \in 0..MaxFaults
  <2>1. op.call # None
    BY <1>1 DEF None
  <2> QED BY <1>4, <2>1, ErrorAnswers DEF EngineInv, EngineType, Idle, Ops
<1>6. EngineType' /\ CallInv'
  BY <1>1, <1>2, <1>3, <1>5 DEF EngineInv, EngineType, StepRule, CallInv, None
<1>7. late # "came" => Guests = {} /\ held \intersect {"jail", "device", "devfs"} = {}
  BY <1>1 DEF EngineInv, EndInv
<1>8. OnceInv' /\ EndInv'
  BY <1>1, <1>2, <1>3, <1>5, <1>7 DEF EngineInv, OnceInv, EndInv, None
<1>9. AnchorInv' /\ DeviceInv'
  BY <1>1, <1>2, <1>3, <1>5, <1>7 DEF AnchorInv, DeviceInv, None
<1> QED BY <1>6, <1>8, <1>9 DEF EngineInv

LEMMA KeepsRemoveContainer == EngineInv /\ RemoveContainer /\ Stays => EngineInv'
<1> SUFFICES ASSUME EngineInv, RemoveContainer, Stays PROVE EngineInv'
  OBVIOUS
<1>1. EngineType'
  BY EnginesAssumption DEF EngineInv, EngineType, Ops, StepRule, RemoveContainer, Ended, Fail, Say, Stays, Sound,
     Fault, Guest, Idle, None
<1>2. CallInv'
  BY DEF RemoveContainer, Fail, Say, Stays, Idle, None, CallInv
<1>3. OnceInv'
  BY DEF EngineInv, RemoveContainer, Ended, Fail, Say, Guest, Idle, OnceInv, Guests
<1>4. AnchorInv'
  BY DEF EngineInv, RemoveContainer, Ended, Stays, Guest, AnchorInv, Guests, Anchored
<1>5. DeviceInv'
  BY DEF EngineInv, EngineType, RemoveContainer, DeviceInv, Holds
<1>6. EndInv'
  BY DEF RemoveContainer, Fail, Say, Idle, EndInv
<1> QED BY <1>1, <1>2, <1>3, <1>4, <1>5, <1>6 DEF EngineInv

LEMMA KeepsDone == EngineInv /\ Done /\ Stays => EngineInv'
<1> SUFFICES ASSUME EngineInv, Done, Stays PROVE EngineInv'
  OBVIOUS
<1>1. op.call # None /\ UNCHANGED Host /\ (\E said : Say(said)) /\ (Sound \/ Fault)
  BY DEF Done, Refuse
<1> QED BY <1>1, ErrorAnswers, Answered DEF Stays, EngineInv, EngineType

LEMMA KeepsQuery == EngineInv /\ Query /\ Stays => EngineInv'
<1> SUFFICES ASSUME EngineInv, Query, Stays PROVE EngineInv'
  OBVIOUS
<1>1. op.call # None /\ UNCHANGED Host /\ (\E said : Say(said)) /\ (Sound \/ Fault)
  BY DEF Query, Refuse, Fail, None
<1> QED BY <1>1, ErrorAnswers, Answered DEF Stays, EngineInv, EngineType

LEMMA KeepsSteps == EngineInv /\ EngineStep => EngineInv'
BY KeepsCheck, KeepsSeed, KeepsClear, KeepsCleanJail, KeepsRecord, KeepsLay, KeepsLaunch, KeepsWritePid, KeepsBoot,
   KeepsResume, KeepsFind, KeepsPowerdown, KeepsTerminate, KeepsUnload, KeepsUnmount, KeepsRemove,
   KeepsRemoveContainer, KeepsDone, KeepsQuery DEF EngineStep, Steps

LEMMA KeepsCall == ASSUME EngineInv, NEW c \in Calls, Call(c) PROVE EngineInv'
<1>1. UNCHANGED <<proc, mode, pidFile, held, kind, late, faults, crashes>> /\ Guests' = Guests
  BY DEF Call, Host, Guests
<1>2. FirstStep[c] \in {"check", "resume", "find"} /\ StepRule(c, FirstStep[c], kind)
  BY DEF FirstStep, StepRule, Calls
<1>3. op' \in Ops /\ op'.call = c /\ op'.at = FirstStep[c] /\ reply'.call = None
  BY <1>2 DEF Call, Ops, Steps0, Silent
<1>4. doomed' = (c = "destroy") /\ (doomed => doomed')
  BY DEF Call
<1>5. EngineType'
  BY <1>1, <1>2, <1>3, <1>4 DEF EngineInv, EngineType
<1>6. CallInv' /\ OnceInv'
  BY <1>1, <1>2, <1>3, <1>4 DEF EngineInv, CallInv, OnceInv
<1>7. AnchorInv' /\ DeviceInv' /\ EndInv'
  BY <1>1, <1>2, <1>3, <1>4 DEF EngineInv, AnchorInv, Anchored, DeviceInv, EndInv
<1> QED BY <1>5, <1>6, <1>7 DEF EngineInv

\* What happens beside the calls: guests boot, end and are paused, and other
\* processes come and go.
Beside == GuestBoots \/ GuestEnds \/ Pause \/ OtherStarts \/ OtherEnds

LEMMA KeepsBeside == EngineInv /\ Beside => EngineInv'
<1> SUFFICES ASSUME EngineInv, Beside PROVE EngineInv'
  OBVIOUS
<1>1. UNCHANGED <<kind, pidFile, op, reply, doomed, late, held, crashes>>
  BY DEF Beside, GuestBoots, GuestEnds, Pause, OtherStarts, OtherEnds, Env
<1>2. proc' \in [Pids -> {"free", "guest", "other"}] /\ Guests' \subseteq Guests
  BY DEF Beside, GuestBoots, GuestEnds, Pause, OtherStarts, OtherEnds, Ends, Guests, EngineInv, EngineType
<1>3. mode' \in {"booting", "running", "paused"} /\ faults' \in 0..MaxFaults
  BY EnginesAssumption
  DEF Beside, GuestBoots, GuestEnds, Pause, OtherStarts, OtherEnds, Ends, Fault, EngineInv, EngineType
<1>4. EngineType' /\ CallInv'
  BY <1>1, <1>2, <1>3 DEF EngineInv, EngineType, CallInv
<1>5. OnceInv' /\ AnchorInv' /\ DeviceInv' /\ EndInv'
  BY <1>1, <1>2 DEF EngineInv, OnceInv, AnchorInv, Anchored, DeviceInv, EndInv
<1> QED BY <1>4, <1>5 DEF EngineInv

LEMMA KeepsAgentCrash == EngineInv /\ AgentCrash => EngineInv'
<1> SUFFICES ASSUME EngineInv, AgentCrash PROVE EngineInv'
  OBVIOUS
<1>1. UNCHANGED <<kind, proc, mode, pidFile, held, reply, doomed, faults>> /\ op' = Idle /\ Guests' = Guests
  BY DEF AgentCrash, Host, Guests
<1>2. crashes' \in 0..MaxCrashes
  BY EnginesAssumption DEF AgentCrash, EngineInv, EngineType
<1>3. CASE late' = late
  BY <1>1, <1>2, <1>3, Answered DEF Host, EngineInv, EngineType
<1>4. CASE late' = "pending" /\ late = None /\ Launching
  <2>1. op.call = "create" /\ op.at \in {"lay", "launch"} /\ kind \in {"docker", "jail", "bhyve"}
    BY <1>4 DEF Launching, At, EngineInv, EngineType, StepRule, None
  <2>2. kind # "docker" => Anchored
    BY <2>1 DEF EngineInv, AnchorInv
  <2>3. Idle \in Ops /\ Idle.call = None /\ Idle.at = None
    BY DEF Idle, Ops
  <2>4. EngineType'
    BY <1>1, <1>2, <1>4, <2>3 DEF EngineInv, EngineType, StepRule, None
  <2>5. CallInv' /\ OnceInv'
    BY <1>1, <1>4, <2>1, <2>3 DEF EngineInv, CallInv, OnceInv, None
  <2>6. AnchorInv' /\ DeviceInv' /\ EndInv'
    BY <1>1, <1>4, <2>2, <2>3 DEF EngineInv, AnchorInv, Anchored, DeviceInv, EndInv, None
  <2> QED BY <2>4, <2>5, <2>6 DEF EngineInv
<1> QED BY <1>3, <1>4 DEF AgentCrash

LEMMA KeepsComesLate == EngineInv /\ ComesLate => EngineInv'
<1> SUFFICES ASSUME EngineInv, ComesLate PROVE EngineInv'
  OBVIOUS
<1>0. /\ kind \in {"docker", "jail", "bhyve"} /\ late = "pending" /\ late' = "came"
      /\ UNCHANGED <<kind, pidFile, op, reply, doomed, faults, crashes>>
      /\ held \subseteq Holds(kind) /\ proc \in [Pids -> {"free", "guest", "other"}]
  BY DEF ComesLate, EngineInv, EngineType, CallInv, None
<1>1. ~doomed /\ kind # "docker" => Anchored
  BY <1>0 DEF EngineInv, AnchorInv
<1>2. held \subseteq held' /\ held' \subseteq Holds(kind)
  BY <1>0 DEF ComesLate, Laid, Started, Holds
<1>3. CASE kind = "bhyve"
  <2>1. UNCHANGED <<proc, mode>> /\ Guests' = Guests
    BY <1>3 DEF ComesLate, Guest, Guests
  <2>2. EngineType' /\ CallInv'
    BY <1>0, <1>2, <2>1 DEF EngineInv, EngineType, CallInv
  <2>3. OnceInv' /\ EndInv'
    BY <1>0, <1>2, <1>3, <2>1 DEF EngineInv, OnceInv, EndInv
  <2>4. AnchorInv' /\ DeviceInv'
    BY <1>0, <1>1, <1>2, <1>3, <2>1 DEF EngineInv, AnchorInv, DeviceInv, Anchored
  <2> QED BY <2>2, <2>3, <2>4 DEF EngineInv
<1>4. CASE kind # "bhyve"
  <2>1. ~Taken /\ Begins /\ held' = held \union Started[kind]
    BY <1>4 DEF ComesLate
  <2>2. Guests = {}
    BY <1>0, <1>4, <2>1 DEF Taken, EngineInv, OnceInv
  <2>3. PICK p \in Free : proc' = [proc EXCEPT ![p] = "guest"] /\ mode' = "running"
    BY <2>1 DEF Begins
  <2>4. Guests' = {p} /\ proc' \in [Pids -> {"free", "guest", "other"}]
    BY <1>0, <2>2, <2>3 DEF Guests, Free
  <2>5. EngineType' /\ CallInv'
    BY <1>0, <1>2, <2>3, <2>4 DEF EngineInv, EngineType, CallInv
  <2>6. OnceInv' /\ EndInv'
    BY <1>0, <1>4, <2>1, <2>4 DEF OnceInv, EndInv, Started
  <2>7. AnchorInv' /\ DeviceInv'
    BY <1>0, <1>1, <1>2, <1>4 DEF EngineInv, AnchorInv, DeviceInv, Anchored
  <2> QED BY <2>5, <2>6, <2>7 DEF EngineInv
<1> QED BY <1>3, <1>4

LEMMA KeepsHostReboot == EngineInv /\ HostReboot => EngineInv'
<1> SUFFICES ASSUME EngineInv, HostReboot PROVE EngineInv'
  OBVIOUS
<1>1. UNCHANGED <<kind, mode, pidFile, reply, doomed, faults>> /\ op' = Idle /\ held' = held \ {"device", "devfs"}
  BY DEF HostReboot
<1>2. Guests' = {} /\ proc' \in [Pids -> {"free", "guest", "other"}]
  BY DEF HostReboot, Guests
<1>3. crashes' \in 0..MaxCrashes /\ late' \in {None, "came"} /\ (late' = "came" => late = "came") /\ (late' # None => late # None)
  BY EnginesAssumption DEF HostReboot, EngineInv, EngineType, None
<1>4. Idle \in Ops /\ Idle.call = None /\ Idle.at = None
  BY DEF Idle, Ops
<1>5. EngineType' /\ CallInv'
  BY <1>1, <1>2, <1>3, <1>4 DEF EngineInv, EngineType, CallInv, StepRule, None
<1>6. OnceInv' /\ AnchorInv' /\ EndInv'
  BY <1>1, <1>2, <1>3, <1>4 DEF OnceInv, AnchorInv, EndInv, None
<1>7. DeviceInv'
  BY <1>1, <1>3 DEF EngineInv, CallInv, DeviceInv
<1> QED BY <1>5, <1>6, <1>7 DEF EngineInv

LEMMA EngineNext == EngineInv /\ [Next]_vars => EngineInv'
<1> SUFFICES ASSUME EngineInv, [Next]_vars PROVE EngineInv'
  OBVIOUS
<1>1. CASE UNCHANGED vars
  BY <1>1 DEF vars, EngineInv, EngineType, CallInv, OnceInv, AnchorInv, Anchored, DeviceInv, EndInv, Guests
<1>2. CASE Next
  BY <1>2, KeepsSteps, KeepsCall, KeepsBeside, KeepsAgentCrash, KeepsComesLate, KeepsHostReboot DEF Next, Beside
<1> QED BY <1>1, <1>2

-----------------------------------------------------------------------------
(* What follows for every number of process ids, failures and crashes *)

\* The invariant holds in every reachable state.
THEOREM EngineSafe == Spec => []EngineInv
BY EngineInit, EngineNext, PTL DEF Spec

\* The types of the variables.
THEOREM TypesKept == Spec => []TypeOK
<1>1. EngineInv => TypeOK
  BY DEF EngineInv, EngineType, TypeOK, Ops, Holds, Members
<1> QED BY <1>1, EngineSafe, PTL

\* No VM executes twice (the duplicate-launch checks of the engines' create).
THEOREM ExecutesOnce == Spec => []OneExecution
<1>1. EngineInv => OneExecution
  <2> SUFFICES ASSUME EngineInv PROVE Cardinality(Guests) <= 1
    BY DEF OneExecution
  <2>1. CASE Guests = {}
    BY <2>1, FS_EmptySet
  <2>2. CASE Guests # {}
    <3>1. PICK p \in Guests : TRUE
      BY <2>2
    <3>2. Guests = {p}
      BY <3>1 DEF EngineInv, OnceInv
    <3> QED BY <3>2, FS_Singleton
  <2> QED BY <2>1, <2>2
<1> QED BY <1>1, EngineSafe, PTL

\* A live guest can be told to be the VM's own, whatever was cut off
\* (Sandbox::load, BhyveEngine::pid, JailEngine::query).
THEOREM AlwaysIdentifiable == Spec => []Identifiable
<1>1. EngineInv => Identifiable
  BY DEF EngineInv, EngineType, AllKinds, AnchorInv, Anchored, Identifiable, Credible, Credential
<1> QED BY <1>1, EngineSafe, PTL

\* No engine ends a process that is not its VM's (terminate).
THEOREM OthersSpared == Spec => OthersUntouched
<1>1. EngineInv /\ EngineStep => \A p \in Pids : proc[p] = "other" => proc'[p] = "other"
  <2> SUFFICES ASSUME EngineInv, EngineStep, NEW p \in Pids, proc[p] = "other" PROVE proc'[p] = "other"
    OBVIOUS
  <2>1. proc \in [Pids -> {"free", "guest", "other"}] /\ p \notin Guests /\ p \notin Free
    BY DEF EngineInv, EngineType, Guests, Free
  <2>2. CASE UNCHANGED proc
    BY <2>2
  <2>3. CASE Ended
    BY <2>1, <2>3 DEF Ended
  <2>4. CASE \E q \in Guests \union Free : \E x : proc' = [proc EXCEPT ![q] = x]
    BY <2>1, <2>4
  <2>5. CASE WritePid \/ Resume \/ Terminate \/ RemoveContainer \/ Launch
    <3>1. WritePid => UNCHANGED proc \/ (op.pid \in Guests /\ Ends(op.pid))
      BY DEF WritePid, Guest
    <3>2. Resume => UNCHANGED proc \/ Begins
      BY DEF Resume, Guest
    <3>3. Terminate => UNCHANGED proc \/ \E q \in Guests : Ends(q)
      BY DEF Terminate, Target, Guest
    <3>4. RemoveContainer => UNCHANGED proc \/ Ended
      BY DEF RemoveContainer, Guest
    <3>5. Launch => UNCHANGED proc \/ \E q \in Free : Launched(q)
      BY DEF Launch, Host, Guest
    <3>6. \A q : Ends(q) \/ Launched(q) => \E x : proc' = [proc EXCEPT ![q] = x]
      BY DEF Ends, Launched
    <3>7. Begins => \E q \in Free : \E x : proc' = [proc EXCEPT ![q] = x]
      BY DEF Begins
    <3> QED BY <2>2, <2>3, <2>4, <2>5, <3>1, <3>2, <3>3, <3>4, <3>5, <3>6, <3>7
  <2>6. CASE ~(WritePid \/ Resume \/ Terminate \/ RemoveContainer \/ Launch)
    <3>1. UNCHANGED proc
      BY <2>6 DEF EngineStep, Steps, Check, Seed, Clear, CleanJail, Record, Lay, Boot, Find, Powerdown, Unload,
         Unmount,
         Remove, Done, Query, Host, Guest
    <3> QED BY <2>2, <3>1
  <2> QED BY <2>5, <2>6
<1> QED BY <1>1, EngineSafe, PTL DEF OthersUntouched

-----------------------------------------------------------------------------
(* The refinement of VmEngine *)

\* What a step of a call changes, in the words of the contract.
Shape ==
  /\ op.call # None
  /\ \/ op'.call = op.call /\ UNCHANGED reply
     \/ op'.call = None /\ reply'.call = op.call
  /\ Guests' # {} => Guests # {} \/ op.call \in {"create", "start"}
  /\ (held' # {}) # (held # {}) => op.call = IF held # {} THEN "destroy" ELSE "create"
  /\ UNCHANGED late
Truthful == op'.call = None => Contract!Honest(op.call, reply'.said, Guests' # {}, held' # {})

\* A call goes on to its next step, or answers.
LEMMA Moves ==
  ASSUME EngineInv
  PROVE  /\ \A step : Go(step) => op'.call = op.call /\ UNCHANGED reply
         /\ \A step, p : GoWith(step, p) => op'.call = op.call /\ UNCHANGED reply
         /\ \A said : Say(said) => op'.call = None /\ reply' = [call |-> op.call, said |-> said]
         /\ Refuse \/ Fail => op'.call = None /\ reply' = [call |-> op.call, said |-> "err"]
<1>1. op \in Ops
  BY DEF EngineInv, EngineType
<1>2. \A step : [op EXCEPT !.at = step].call = op.call
  BY <1>1 DEF Ops
<1>3. \A step, p : [op EXCEPT !.at = step, !.pid = p].call = op.call
  BY <1>1 DEF Ops
<1>4. \A step : Go(step) => op'.call = op.call /\ UNCHANGED reply
  BY <1>2 DEF Go
<1>5. \A step, p : GoWith(step, p) => op'.call = op.call /\ UNCHANGED reply
  BY <1>3 DEF GoWith
<1>6. \A said : Say(said) => op'.call = None /\ reply' = [call |-> op.call, said |-> said]
  BY DEF Say, Idle
<1>7. Refuse \/ Fail => Say("err")
  BY DEF Refuse, Fail
<1> QED BY <1>4, <1>5, <1>6, <1>7

\* Each step of a call has this shape, and its answer is true.
LEMMA ShapeCheck == EngineInv /\ Check /\ Stays => Shape /\ Truthful
<1> SUFFICES ASSUME EngineInv, Check, Stays PROVE Shape /\ Truthful
  OBVIOUS
<1>1. op.call # None /\ op \in Ops /\ kind \in AllKinds
  BY DEF EngineInv, EngineType, Check, None
<1>2. (op'.call = op.call /\ UNCHANGED reply) \/ (op'.call = None /\ reply'.call = op.call)
  BY Moves DEF Check
<1>3. Guests' # {} => Guests # {} \/ op.call \in {"create", "start"}
  BY <1>1 DEF Check, Found, AfterCheck
<1>4. (held' # {}) # (held # {}) => op.call = IF held # {} THEN "destroy" ELSE "create"
  BY <1>1 DEF Check, Host
<1>5. Truthful
  BY <1>1 DEF Truthful, Contract!Honest, Check
<1> QED BY <1>1, <1>2, <1>3, <1>4, <1>5 DEF Shape, Stays

LEMMA ShapeSeed == EngineInv /\ Seed /\ Stays => Shape /\ Truthful
<1> SUFFICES ASSUME EngineInv, Seed, Stays PROVE Shape /\ Truthful
  OBVIOUS
<1>1. op.call # None /\ op \in Ops /\ kind \in AllKinds
  BY DEF EngineInv, EngineType, StepRule, Seed, At, None
<1>2. (op'.call = op.call /\ UNCHANGED reply) \/ (op'.call = None /\ reply'.call = op.call)
  BY Moves DEF Seed
<1>3. Guests' # {} => Guests # {} \/ op.call \in {"create", "start"}
  BY <1>1 DEF Guests, Seed, Guest
<1>4. (held' # {}) # (held # {}) => op.call = IF held # {} THEN "destroy" ELSE "create"
  BY <1>1 DEF EngineInv, EngineType, StepRule, Seed, At
<1>5. Truthful
  BY <1>1 DEF Truthful, Contract!Honest, Ops, Seed, Go, Fail, Say
<1> QED BY <1>1, <1>2, <1>3, <1>4, <1>5 DEF Shape, Stays

LEMMA ShapeClear == EngineInv /\ Clear /\ Stays => Shape /\ Truthful
<1> SUFFICES ASSUME EngineInv, Clear, Stays PROVE Shape /\ Truthful
  OBVIOUS
<1>1. op.call # None /\ op \in Ops /\ kind \in AllKinds
  BY DEF EngineInv, EngineType, StepRule, Clear, At, None
<1>2. (op'.call = op.call /\ UNCHANGED reply) \/ (op'.call = None /\ reply'.call = op.call)
  BY Moves DEF Clear
<1>3. Guests' # {} => Guests # {} \/ op.call \in {"create", "start"}
  BY <1>1 DEF Guests, Clear, Guest
<1>4. (held' # {}) # (held # {}) => op.call = IF held # {} THEN "destroy" ELSE "create"
  BY <1>1 DEF EngineInv, EngineType, StepRule, AnchorInv, Anchored, Clear, At
<1>5. Truthful
  BY <1>1 DEF Truthful, Clear, Go
<1> QED BY <1>1, <1>2, <1>3, <1>4, <1>5 DEF Shape, Stays

LEMMA ShapeCleanJail == EngineInv /\ CleanJail /\ Stays => Shape /\ Truthful
<1> SUFFICES ASSUME EngineInv, CleanJail, Stays PROVE Shape /\ Truthful
  OBVIOUS
<1>1. op.call # None /\ op \in Ops /\ kind \in AllKinds
  BY DEF EngineInv, EngineType, StepRule, CleanJail, At, None
<1>2. (op'.call = op.call /\ UNCHANGED reply) \/ (op'.call = None /\ reply'.call = op.call)
  BY Moves DEF CleanJail
<1>3. Guests' # {} => Guests # {} \/ op.call \in {"create", "start"}
  BY <1>1 DEF Guests, CleanJail, Guest
<1>4. (held' # {}) # (held # {}) => op.call = IF held # {} THEN "destroy" ELSE "create"
  BY <1>1 DEF CleanJail, Go, Idle
<1>5. Truthful
  BY <1>1 DEF Truthful, Contract!Honest, Ops, CleanJail, Go, Fail, Say
<1> QED BY <1>1, <1>2, <1>3, <1>4, <1>5 DEF Shape, Stays

LEMMA ShapeRecord == EngineInv /\ Record /\ Stays => Shape /\ Truthful
<1> SUFFICES ASSUME EngineInv, Record, Stays PROVE Shape /\ Truthful
  OBVIOUS
<1>1. op.call # None /\ op \in Ops /\ kind \in AllKinds
  BY DEF EngineInv, EngineType, StepRule, Record, At, None
<1>2. (op'.call = op.call /\ UNCHANGED reply) \/ (op'.call = None /\ reply'.call = op.call)
  BY Moves DEF Record
<1>3. Guests' # {} => Guests # {} \/ op.call \in {"create", "start"}
  BY <1>1 DEF Guests, Record, Guest
<1>4. (held' # {}) # (held # {}) => op.call = IF held # {} THEN "destroy" ELSE "create"
  BY <1>1 DEF EngineInv, EngineType, StepRule, Record, At
<1>5. Truthful
  BY <1>1 DEF Truthful, Contract!Honest, Ops, Record, Go, Fail, Say
<1> QED BY <1>1, <1>2, <1>3, <1>4, <1>5 DEF Shape, Stays

LEMMA ShapeLay == EngineInv /\ Lay /\ Stays => Shape /\ Truthful
<1> SUFFICES ASSUME EngineInv, Lay, Stays PROVE Shape /\ Truthful
  OBVIOUS
<1>1. op.call # None /\ op \in Ops /\ kind \in AllKinds
  BY DEF EngineInv, EngineType, StepRule, Lay, At, None
<1>2. (op'.call = op.call /\ UNCHANGED reply) \/ (op'.call = None /\ reply'.call = op.call)
  BY Moves DEF Lay
<1>3. Guests' # {} => Guests # {} \/ op.call \in {"create", "start"}
  BY <1>1 DEF Guests, Lay, Guest
<1>4. (held' # {}) # (held # {}) => op.call = IF held # {} THEN "destroy" ELSE "create"
  BY <1>1 DEF EngineInv, EngineType, StepRule, Lay, At
<1>5. Truthful
  BY <1>1 DEF Truthful, Contract!Honest, Ops, Lay, Go, Fail, Say
<1> QED BY <1>1, <1>2, <1>3, <1>4, <1>5 DEF Shape, Stays

LEMMA ShapeLaunch == EngineInv /\ Launch /\ Stays => Shape /\ Truthful
<1> SUFFICES ASSUME EngineInv, Launch, Stays PROVE Shape /\ Truthful
  OBVIOUS
<1>1. op.call # None /\ op \in Ops /\ kind \in AllKinds
  BY DEF EngineInv, EngineType, StepRule, Launch, At, None
<1>2. (op'.call = op.call /\ UNCHANGED reply) \/ (op'.call = None /\ reply' = [call |-> op.call, said |-> "err"])
  BY Moves DEF Launch
<1>3. Guests' # {} => Guests # {} \/ op.call \in {"create", "start"}
  BY <1>1 DEF EngineInv, EngineType, StepRule, Launch, At
<1>4. (held' # {}) # (held # {}) => op.call = IF held # {} THEN "destroy" ELSE "create"
  BY <1>1 DEF EngineInv, EngineType, StepRule, Launch, Launched, Host, At
<1>5. Truthful
  BY <1>1, <1>2 DEF Truthful, Contract!Honest
<1> QED BY <1>1, <1>2, <1>3, <1>4, <1>5 DEF Shape, Stays

LEMMA ShapeWritePid == EngineInv /\ WritePid /\ Stays => Shape /\ Truthful
<1> SUFFICES ASSUME EngineInv, WritePid, Stays PROVE Shape /\ Truthful
  OBVIOUS
<1>1. op.call # None /\ op \in Ops /\ kind \in AllKinds
  BY DEF EngineInv, EngineType, StepRule, WritePid, At, None
<1>2. (op'.call = op.call /\ UNCHANGED reply) \/ (op'.call = None /\ reply'.call = op.call)
  BY Moves DEF WritePid
<1>3. Guests' # {} => Guests # {} \/ op.call \in {"create", "start"}
  BY <1>1 DEF Guests, WritePid, Guest
<1>4. (held' # {}) # (held # {}) => op.call = IF held # {} THEN "destroy" ELSE "create"
  BY <1>1 DEF EngineInv, EngineType, StepRule, WritePid, At
<1>5. Truthful
  BY <1>1 DEF Truthful, Contract!Honest, Ops, WritePid, Go, Fail, Say
<1> QED BY <1>1, <1>2, <1>3, <1>4, <1>5 DEF Shape, Stays

LEMMA ShapeBoot == EngineInv /\ Boot /\ Stays => Shape /\ Truthful
<1> SUFFICES ASSUME EngineInv, Boot, Stays PROVE Shape /\ Truthful
  OBVIOUS
<1>1. op.call # None /\ op \in Ops /\ kind \in AllKinds
  BY DEF EngineInv, EngineType, Boot, None
<1>2. (op'.call = op.call /\ UNCHANGED reply) \/ (op'.call = None /\ reply'.call = op.call)
  BY Moves DEF Boot
<1>3. Guests' # {} => Guests # {} \/ op.call \in {"create", "start"}
  BY <1>1 DEF Boot
<1>4. (held' # {}) # (held # {}) => op.call = IF held # {} THEN "destroy" ELSE "create"
  BY <1>1 DEF Boot, Host
<1>5. Truthful
  BY <1>1 DEF Truthful, Contract!Honest, Boot
<1> QED BY <1>1, <1>2, <1>3, <1>4, <1>5 DEF Shape, Stays

LEMMA ShapeResume == EngineInv /\ Resume /\ Stays => Shape /\ Truthful
<1> SUFFICES ASSUME EngineInv, Resume, Stays PROVE Shape /\ Truthful
  OBVIOUS
<1>1. op.call # None /\ op \in Ops /\ kind \in AllKinds
  BY DEF EngineInv, EngineType, Resume, None
<1>2. (op'.call = op.call /\ UNCHANGED reply) \/ (op'.call = None /\ reply'.call = op.call)
  BY Moves DEF Resume
<1>3. Guests' # {} => Guests # {} \/ op.call \in {"create", "start"}
  BY <1>1 DEF Resume, Go
<1>4. (held' # {}) # (held # {}) => op.call = IF held # {} THEN "destroy" ELSE "create"
  BY <1>1 DEF Anchored, Resume, Resumable
<1>5. Truthful
  BY <1>1 DEF Truthful, Contract!Honest, Resume
<1> QED BY <1>1, <1>2, <1>3, <1>4, <1>5 DEF Shape, Stays

LEMMA ShapeFind == EngineInv /\ Find /\ Stays => Shape /\ Truthful
<1> SUFFICES ASSUME EngineInv, Find, Stays PROVE Shape /\ Truthful
  OBVIOUS
<1>1. op.call # None /\ op \in Ops /\ kind \in AllKinds
  BY DEF EngineInv, EngineType, Find, None
<1>2. (op'.call = op.call /\ UNCHANGED reply) \/ (op'.call = None /\ reply' = [call |-> op.call, said |-> "err"])
  BY Moves DEF Find
<1>3. Guests' # {} => Guests # {} \/ op.call \in {"create", "start"}
  BY <1>1 DEF Guests, Find, Host
<1>4. (held' # {}) # (held # {}) => op.call = IF held # {} THEN "destroy" ELSE "create"
  BY <1>1 DEF Find, Host
<1>5. Truthful
  BY <1>1, <1>2 DEF Truthful, Contract!Honest
<1> QED BY <1>1, <1>2, <1>3, <1>4, <1>5 DEF Shape, Stays

LEMMA ShapePowerdown == EngineInv /\ Powerdown /\ Stays => Shape /\ Truthful
<1> SUFFICES ASSUME EngineInv, Powerdown, Stays PROVE Shape /\ Truthful
  OBVIOUS
<1>1. op.call # None /\ op \in Ops /\ kind \in AllKinds
  BY DEF EngineInv, EngineType, StepRule, Powerdown, At, None
<1>2. (op'.call = op.call /\ UNCHANGED reply) \/ (op'.call = None /\ reply'.call = op.call)
  BY Moves DEF Powerdown
<1>3. Guests' # {} => Guests # {} \/ op.call \in {"create", "start"}
  BY <1>1 DEF Guests, Powerdown
<1>4. (held' # {}) # (held # {}) => op.call = IF held # {} THEN "destroy" ELSE "create"
  BY <1>1 DEF Powerdown
<1>5. Truthful
  BY <1>1 DEF Truthful, Contract!Honest, Ops, Powerdown, Go, Fail, Say
<1> QED BY <1>1, <1>2, <1>3, <1>4, <1>5 DEF Shape, Stays

LEMMA ShapeTerminate == EngineInv /\ Terminate /\ Stays => Shape /\ Truthful
<1> SUFFICES ASSUME EngineInv, Terminate, Stays PROVE Shape /\ Truthful
  OBVIOUS
<1>1. op.call # None /\ op \in Ops /\ kind \in AllKinds
  BY DEF EngineInv, EngineType, Terminate, None
<1>2. (op'.call = op.call /\ UNCHANGED reply) \/ (op'.call = None /\ reply'.call = op.call)
  BY Moves DEF Terminate
<1>3. Guests' # {} => Guests # {} \/ op.call \in {"create", "start"}
  BY <1>1 DEF Guests, Terminate, Target, Guest
<1>4. (held' # {}) # (held # {}) => op.call = IF held # {} THEN "destroy" ELSE "create"
  BY <1>1 DEF EngineInv, CallInv, DeviceInv, Terminate
<1>5. Truthful
  BY <1>1 DEF Truthful, Contract!Honest, Ops, Terminate, Go, Fail, Say
<1> QED BY <1>1, <1>2, <1>3, <1>4, <1>5 DEF Shape, Stays

LEMMA ShapeUnload == EngineInv /\ Unload /\ Stays => Shape /\ Truthful
<1> SUFFICES ASSUME EngineInv, Unload, Stays PROVE Shape /\ Truthful
  OBVIOUS
<1>1. op.call # None /\ op \in Ops /\ kind \in AllKinds
  BY DEF EngineInv, EngineType, StepRule, Unload, At, None
<1>2. (op'.call = op.call /\ UNCHANGED reply) \/ (op'.call = None /\ reply'.call = op.call)
  BY Moves DEF Unload
<1>3. Guests' # {} => Guests # {} \/ op.call \in {"create", "start"}
  BY <1>1 DEF Guests, Unload, Guest
<1>4. (held' # {}) # (held # {}) => op.call = IF held # {} THEN "destroy" ELSE "create"
  BY <1>1 DEF Anchored, Unload
<1>5. Truthful
  BY <1>1 DEF Truthful, Contract!Honest, Ops, Unload, Go, Refuse, Fail, Say
<1> QED BY <1>1, <1>2, <1>3, <1>4, <1>5 DEF Shape, Stays

LEMMA ShapeUnmount == EngineInv /\ Unmount /\ Stays => Shape /\ Truthful
<1> SUFFICES ASSUME EngineInv, Unmount, Stays PROVE Shape /\ Truthful
  OBVIOUS
<1>1. op.call # None /\ op \in Ops /\ kind \in AllKinds
  BY DEF EngineInv, EngineType, StepRule, Unmount, At, None
<1>2. (op'.call = op.call /\ UNCHANGED reply) \/ (op'.call = None /\ reply'.call = op.call)
  BY Moves DEF Unmount
<1>3. Guests' # {} => Guests # {} \/ op.call \in {"create", "start"}
  BY <1>1 DEF Guests, Unmount, Guest
<1>4. (held' # {}) # (held # {}) => op.call = IF held # {} THEN "destroy" ELSE "create"
  BY <1>1 DEF Unmount
<1>5. Truthful
  BY <1>1 DEF Truthful, Contract!Honest, Ops, Unmount, Go, Fail, Say
<1> QED BY <1>1, <1>2, <1>3, <1>4, <1>5 DEF Shape, Stays

LEMMA ShapeRemove == EngineInv /\ Remove /\ Stays => Shape /\ Truthful
<1> SUFFICES ASSUME EngineInv, Remove, Stays PROVE Shape /\ Truthful
  OBVIOUS
<1>1. op.call # None /\ op \in Ops /\ kind \in AllKinds
  BY DEF EngineInv, EngineType, StepRule, Remove, At, None
<1>2. (op'.call = op.call /\ UNCHANGED reply) \/ (op'.call = None /\ reply'.call = op.call)
  BY Moves DEF Remove
<1>3. Guests' # {} => Guests # {} \/ op.call \in {"create", "start"}
  BY <1>1 DEF Guests, Remove, Guest
<1>4. (held' # {}) # (held # {}) => op.call = IF held # {} THEN "destroy" ELSE "create"
  BY <1>1 DEF EngineInv, EngineType, StepRule, Remove, At
<1>5. op.call = "destroy" /\ op.at = "files" /\ kind # "docker" /\ Guests' = Guests
  BY DEF Remove, At, Guest, Guests, EngineInv, EngineType, StepRule, None
<1>6. late # "came" => Guests = {} /\ held \intersect {"jail", "device", "devfs"} = {}
  BY <1>5 DEF EngineInv, EndInv
<1>7. (\A i \in DOMAIN Files[kind] : Files[kind][i] \notin held) => held \subseteq {"jail", "device", "devfs"}
  BY <1>1, <1>5 DEF Files, AllKinds, Holds, EngineInv, EngineType
<1>8. Truthful
  <2>1. CASE op'.call = op.call
    BY <1>1, <2>1 DEF Truthful
  <2>2. CASE Say("err")
    BY <1>5, <2>2 DEF Truthful, Say, Contract!Honest
  <2>3. CASE Say("ok") /\ held' = held /\ \A i \in DOMAIN Files[kind] : Files[kind][i] \notin held
    BY <1>5, <1>6, <1>7, <2>3 DEF Truthful, Say, Contract!Honest
  <2> QED BY <2>1, <2>2, <2>3 DEF Remove, Fail
<1> QED BY <1>1, <1>2, <1>3, <1>4, <1>8 DEF Shape, Stays

LEMMA ShapeRemoveContainer == EngineInv /\ RemoveContainer /\ Stays => Shape /\ Truthful
<1> SUFFICES ASSUME EngineInv, RemoveContainer, Stays PROVE Shape /\ Truthful
  OBVIOUS
<1>1. op.call # None /\ op \in Ops /\ kind \in AllKinds
  BY DEF EngineInv, EngineType, StepRule, RemoveContainer, At, None
<1>2. (op'.call = op.call /\ UNCHANGED reply) \/ (op'.call = None /\ reply'.call = op.call)
  BY Moves DEF RemoveContainer
<1>3. Guests' # {} => Guests # {} \/ op.call \in {"create", "start"}
  BY <1>1 DEF Guests, RemoveContainer, Ended, Guest
<1>4. (held' # {}) # (held # {}) => op.call = IF held # {} THEN "destroy" ELSE "create"
  BY <1>1 DEF EngineInv, EngineType, StepRule, RemoveContainer, At
<1>5. Truthful
  BY <1>1 DEF Truthful, Contract!Honest, EngineInv, EngineType, Holds, Guests, RemoveContainer, Ended, Fail, Say
<1> QED BY <1>1, <1>2, <1>3, <1>4, <1>5 DEF Shape, Stays

LEMMA ShapeDone == EngineInv /\ Done /\ Stays => Shape /\ Truthful
<1> SUFFICES ASSUME EngineInv, Done, Stays PROVE Shape /\ Truthful
  OBVIOUS
<1>1. op.call # None /\ op \in Ops /\ kind \in AllKinds
  BY DEF EngineInv, EngineType, Done
<1>2. (op'.call = op.call /\ UNCHANGED reply) \/ (op'.call = None /\ reply'.call = op.call)
  BY Moves DEF Done
<1>3. Guests' # {} => Guests # {} \/ op.call \in {"create", "start"}
  BY <1>1 DEF Guests, Done, Host
<1>4. (held' # {}) # (held # {}) => op.call = IF held # {} THEN "destroy" ELSE "create"
  BY <1>1 DEF Done, Host
<1>5. Truthful
  BY <1>1 DEF Truthful, Contract!Honest, EngineInv, EngineType, StepRule, EndInv, Guests, Done, Host, At
<1> QED BY <1>1, <1>2, <1>3, <1>4, <1>5 DEF Shape, Stays

LEMMA ShapeQuery == EngineInv /\ Query /\ Stays => Shape /\ Truthful
<1> SUFFICES ASSUME EngineInv, Query, Stays PROVE Shape /\ Truthful
  OBVIOUS
<1>1. op.call # None /\ op \in Ops /\ kind \in AllKinds
  BY DEF EngineInv, EngineType, Query, None
<1>2. (op'.call = op.call /\ UNCHANGED reply) \/ (op'.call = None /\ reply'.call = op.call)
  BY Moves DEF Query
<1>3. Guests' # {} => Guests # {} \/ op.call \in {"create", "start"}
  BY <1>1 DEF Guests, Query, Host
<1>4. (held' # {}) # (held # {}) => op.call = IF held # {} THEN "destroy" ELSE "create"
  BY <1>1 DEF Query, Host
<1>5. Truthful
  BY <1>1, Finds DEF Truthful, Contract!Honest, EngineInv, EngineType, Guests, Query, Refuse, Fail, Say, Host
<1> QED BY <1>1, <1>2, <1>3, <1>4, <1>5 DEF Shape, Stays

LEMMA ShapeSteps == EngineInv /\ EngineStep => Shape /\ Truthful
BY ShapeCheck, ShapeSeed, ShapeClear, ShapeCleanJail, ShapeRecord, ShapeLay, ShapeLaunch, ShapeWritePid, ShapeBoot,
   ShapeResume, ShapeFind, ShapePowerdown, ShapeTerminate, ShapeUnload, ShapeUnmount, ShapeRemove,
   ShapeRemoveContainer, ShapeDone, ShapeQuery DEF EngineStep, Steps

LEMMA ContractInit == Init => Contract!Init
BY DEF Init, Contract!Init, Idle, Silent, Contract!Silent, Guests

\* A step of the engines is a step of the contract, or none.
LEMMA ContractNext == EngineInv /\ EngineInv' /\ [Next]_vars => [Contract!Next]_(Contract!contractVars)
<1> SUFFICES ASSUME EngineInv, EngineInv', [Next]_vars PROVE Contract!Next \/ UNCHANGED Contract!contractVars
  OBVIOUS
<1>0. Guests' # {} => held' # {} \/ late' = "came"
  BY DEF EngineInv, EngineType, AllKinds, AnchorInv, Anchored
<1>1. CASE UNCHANGED vars
  BY <1>1 DEF vars, Contract!contractVars, Guests
<1>2. CASE EngineStep
  BY <1>0, <1>2, ShapeSteps
  DEF Shape, Truthful, Contract!Next, Contract!Work, Contract!Answer, Contract!Changes
<1>3. ASSUME NEW c \in Calls, Call(c) PROVE Contract!Begin
  BY <1>3 DEF Call, Contract!Begin, Host, Idle, Silent, Contract!Silent, Guests
<1>4. CASE Beside
  <2>1. UNCHANGED <<op, reply, late, held>>
    BY <1>4 DEF Beside, GuestBoots, GuestEnds, Pause, OtherStarts, OtherEnds, Env
  <2>2. Guests' = Guests \/ Guests' = {}
    BY <1>4 DEF Beside, GuestBoots, GuestEnds, Pause, OtherStarts, OtherEnds, Ends, Guests, EngineInv, EngineType,
       OnceInv
  <2> QED BY <2>1, <2>2 DEF Contract!Next, Contract!Vanish, Contract!contractVars
<1>5. CASE AgentCrash
  <2>1. Launching => op.call = "create"
    BY DEF Launching, At, EngineInv, EngineType, StepRule, None
  <2> QED BY <1>5, <2>1 DEF AgentCrash, Contract!Next, Contract!Crash, Host, Idle, Guests
<1>6. CASE HostReboot
  <2>1. Guests' = {} /\ op'.call = None /\ late' \in {late, None} /\ UNCHANGED reply /\ held' = held \ {"device", "devfs"}
    BY <1>6 DEF HostReboot, Guests, Idle
  <2>2. (held' # {}) # (held # {}) => held # {} /\ late = "came"
    BY <2>1 DEF EngineInv, EngineType, AllKinds, Holds, DeviceInv
  <2> QED BY <2>1, <2>2 DEF Contract!Next, Contract!Crash
<1>7. CASE ComesLate
  <2>1. late = "pending" /\ late' = "came" /\ UNCHANGED <<op, reply>>
    BY <1>7 DEF ComesLate
  <2>2. held' # {}
    BY <1>7 DEF ComesLate, Laid, Started, EngineInv, CallInv
  <2> QED BY <2>1, <2>2 DEF Contract!Next, Contract!Late
<1> QED BY <1>1, <1>2, <1>3, <1>4, <1>5, <1>6, <1>7 DEF Next, Beside, Contract!Next

\* The engines keep the contract of the trait (VmEngine): what an answer says
\* is so, and nothing executes or is laid out but by a call meant for it.
THEOREM EnginesImplement == Spec => KeepsContract
<1>1. Spec => Contract!Init /\ [][Contract!Next]_(Contract!contractVars)
  BY ContractInit, ContractNext, EngineSafe, PTL DEF Spec
<1> QED BY <1>1 DEF KeepsContract, Contract!Spec
=============================================================================
