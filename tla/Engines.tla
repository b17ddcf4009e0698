------------------------------ MODULE Engines ------------------------------
(* The five engines of one VM, as the steps of their calls on the host:      *)
(* files under RUN_DIR, processes found by their arguments, containers,      *)
(* jails and devices. The agent may be killed between two steps and make any *)
(* call again; the host may reboot and give an old process id to a stranger. *)
(* A launching command outlives an agent that is killed (the unit has        *)
(* KillMode=process), so its effect may come late. One that is killed on its *)
(* own timeout has had its effect or never has it.                           *)
EXTENDS Naturals, FiniteSets

CONSTANTS Pids,        \* process ids of the host
          Kinds,       \* the engines to choose the VM's from
          MaxFaults,   \* failed commands, unreadable queries, pauses
          MaxCrashes   \* agent crashes and host reboots

ASSUME EnginesAssumption ==
  /\ Kinds \subseteq {"qemu", "firecracker", "docker", "bhyve", "jail"}
  /\ Pids \intersect {"none", "container"} = {}
  /\ MaxFaults \in Nat /\ MaxCrashes \in Nat

VARIABLES
  kind,     \* the VM's engine
  proc,     \* what runs under each process id
  mode,     \* how the guest fares while it executes
  pidFile,  \* the process id recorded for the VM
  held,     \* files, directories, devices and containers of the VM
  op,       \* the call under way
  reply,    \* the last answer
  doomed,   \* deletion of the VM has begun
  late,     \* a launching command that outlived its agent: pending, or came
  faults, crashes

vars == <<kind, proc, mode, pidFile, held, op, reply, doomed, late, faults, crashes>>

None == "none"
Calls == {"create", "start", "stop", "destroy", "state"}
Idle == [call |-> None, at |-> None, pid |-> None]
Silent == [call |-> None, said |-> None]

Guests == {p \in Pids : proc[p] = "guest"}
Free == {p \in Pids : proc[p] = "free"}

Init ==
  /\ kind \in Kinds
  /\ proc = [p \in Pids |-> "free"] /\ mode = "running" /\ pidFile = None
  /\ held = {} /\ op = Idle /\ reply = Silent
  /\ doomed = FALSE /\ late = None /\ faults = 0 /\ crashes = 0

-----------------------------------------------------------------------------
(* Steps of a call *)

At(step) == op.at = step
Go(step) == op' = [op EXCEPT !.at = step] /\ UNCHANGED reply
GoWith(step, p) == op' = [op EXCEPT !.at = step, !.pid = p] /\ UNCHANGED reply
Say(said) == op' = Idle /\ reply' = [call |-> op.call, said |-> said]

Sound == UNCHANGED faults
Fault == faults < MaxFaults /\ faults' = faults + 1
Refuse == Say("err") /\ Sound
Fail == Say("err") /\ Fault

Guest == <<proc, mode>>
Host == <<proc, mode, pidFile, held>>
Stays == UNCHANGED <<kind, doomed, late, crashes>>

Ended == proc' = [p \in Pids |-> IF p \in Guests THEN "free" ELSE proc[p]] /\ UNCHANGED mode
Ends(p) == proc' = [proc EXCEPT ![p] = "free"] /\ UNCHANGED mode
Begins == \E p \in Free : proc' = [proc EXCEPT ![p] = "guest"] /\ mode' = "running"

\* Mutant: only the PID file is believed.
RecoveredFromFile == IF pidFile \in Guests THEN {pidFile} ELSE {None}

\* recover_pid: the recorded process when its arguments are the VM's, else the
\* only process whose arguments are. More than one is an error.
Recovered == IF pidFile \in Guests THEN {pidFile}
             ELSE IF Guests = {} THEN {None}
             ELSE IF Cardinality(Guests) = 1 THEN Guests ELSE {}

\* Mutant: the jail's root is recorded under another name than is read.
CredentialMisnamed == [qemu |-> {}, docker |-> {}, firecracker |-> {"sandbox"},
                       bhyve |-> {"disk"}, jail |-> {"path"}]

\* Without its record a live guest is not taken for the VM's own.
Credential == [qemu |-> {}, docker |-> {}, firecracker |-> {"sandbox"},
               bhyve |-> {"disk"}, jail |-> {"root"}]
Credible == Guests = {} \/ Credential[kind] \subseteq held

\* A docker container is found by its name, running or not.
Found == IF kind = "docker"
         THEN IF "container" \in held THEN {"container"} ELSE {None}
         ELSE IF Credible THEN Recovered ELSE {}

Present == Found \ {None} /= {}

-----------------------------------------------------------------------------
(* create *)

\* Mutant: Firecracker's metadata is not written.
AfterCheckUnrecorded == [qemu |-> "seed", firecracker |-> "lay", docker |-> "launch",
                         bhyve |-> "device", jail |-> "record"]

AfterCheck == [qemu |-> "seed", firecracker |-> "cleanup", docker |-> "launch",
               bhyve |-> "device", jail |-> "record"]

\* Mutant: a create launches whatever runs.
CheckNothing == At("check") /\ Go(AfterCheck[kind]) /\ Sound /\ UNCHANGED Host

\* A live guest, or one that cannot be identified, refuses another launch.
\* The docker engine leaves it to docker run to refuse a name that is taken.
Check ==
  /\ op.call = "create" /\ At("check")
  /\ \/ /\ (kind = "docker" \/ Found = {None})
        /\ Go(AfterCheck[kind]) /\ Sound
     \/ kind /= "docker" /\ Found /= {None} /\ Refuse
     \/ Fail
  /\ UNCHANGED Host

\* generate_seed_iso publishes the finished image; stale runtime files go.
Seed ==
  /\ kind = "qemu" /\ At("seed")
  /\ \/ held' = held \cup {"seed"} /\ Go("clear") /\ Sound
     \/ Fail /\ UNCHANGED held
  /\ UNCHANGED <<Guest, pidFile>>

Clear ==
  /\ kind = "qemu" /\ At("clear")
  /\ held' = held \ {"monitor", "pid"} /\ pidFile' = None
  /\ Go("launch") /\ Sound /\ UNCHANGED Guest

\* Leftovers of the last jail go before a new one is laid out.
CleanJail ==
  /\ kind = "firecracker" /\ At("cleanup")
  /\ \/ /\ held' = IF "sandbox" \in held THEN held \ {"jail"} ELSE held
        /\ Go(IF op.call = "create" THEN "record" ELSE "files") /\ Sound
     \/ Fail /\ UNCHANGED held
  /\ UNCHANGED <<Guest, pidFile>>

\* What identifies the guest later is on disk before the guest can execute.
Record ==
  /\ kind \in {"firecracker", "bhyve", "jail"} /\ At("record")
  /\ \/ held' = held \cup Credential[kind]
        /\ Go("lay") /\ Sound
     \/ Fail /\ UNCHANGED held
  /\ UNCHANGED <<Guest, pidFile>>

\* The jail's members and the log (Firecracker), the loaded device (bhyve), the
\* configuration (jail); a command that fails may have done its work. An empty
\* jail directory does not count as a resource.
Laid == [firecracker |-> {"jail", "log"}, bhyve |-> {"device"}, jail |-> {"conf"}][kind]
Lay ==
  /\ At("lay")
  /\ \/ held' = held \cup Laid /\ Go("launch") /\ Sound
     \/ Fail /\ held' \in {held, held \cup Laid}
  /\ UNCHANGED <<Guest, pidFile>>

\* The launching command. QEMU writes its own PID file and monitor socket; the
\* others are asked for, or their PID recorded, in a step of its own.
Started == [qemu |-> {"pid", "monitor"}, docker |-> {"container"}, jail |-> {"devfs"},
            firecracker |-> {}, bhyve |-> {"log"}]
Named(p) == IF kind = "qemu" THEN p ELSE pidFile
AfterLaunch == [qemu |-> "done", firecracker |-> "pidfile", docker |-> "verify",
                bhyve |-> "pidfile", jail |-> "verify"]

Launched(p) ==
  /\ proc' = [proc EXCEPT ![p] = "guest"]
  /\ mode' = IF kind = "firecracker" THEN "booting" ELSE "running"
  /\ pidFile' = Named(p) /\ held' = held \cup Started[kind]

\* The names of containers and jails are taken once.
Taken == \/ kind = "docker" /\ "container" \in held
         \/ kind = "jail" /\ Guests /= {}

Launch ==
  /\ At("launch")
  /\ \/ Taken /\ Refuse /\ UNCHANGED Host
     \/ ~Taken /\ \E p \in Free : Launched(p) /\ GoWith(AfterLaunch[kind], p) /\ Sound
     \/ Fail /\ kind \in {"qemu", "docker", "jail"} /\ ~Taken /\ (\E p \in Free : Launched(p))
     \/ /\ Fail /\ UNCHANGED <<Guest, pidFile>>
        /\ held' \in {held, held \cup (IF kind \in {"docker", "jail"} THEN Started[kind] ELSE {})}

\* Recording the PID. When that fails Firecracker's child is killed and reaped,
\* bhyve's is left for the next call to find.
WritePid ==
  /\ At("pidfile")
  /\ \/ /\ pidFile' = op.pid /\ held' = held \cup {"pid"}
        /\ Go("boot") /\ Sound /\ UNCHANGED Guest
     \/ /\ Fail /\ UNCHANGED <<pidFile, held>>
        /\ IF kind = "firecracker" /\ op.pid \in Guests
           THEN Ends(op.pid) ELSE UNCHANGED Guest

\* wait_for_boot, bhyve's first second, docker's and jail's last look. A guest
\* that is not ready in time stays, for inspection.
Boot ==
  /\ op.call \in {"create", "start"} /\ (At("boot") \/ At("verify"))
  /\ \/ Guests /= {} /\ mode = "running" /\ Say("ok") /\ Sound
     \/ (Guests = {} \/ mode /= "running") /\ Refuse
     \/ Fail
  /\ UNCHANGED Host

-----------------------------------------------------------------------------
(* start: only a paused guest, or a docker container, comes back this way *)

Resumable == \/ kind \in {"qemu", "firecracker"} /\ Guests /= {} /\ mode /= "booting"
             \/ kind = "docker" /\ "container" \in held

Resume ==
  /\ op.call = "start" /\ At("resume")
  /\ \/ /\ Resumable
        /\ IF Guests = {} THEN Begins ELSE mode' = "running" /\ UNCHANGED proc
        /\ IF kind = "docker" THEN Go("verify") ELSE Say("ok")
        /\ Sound
     \/ ~Resumable /\ Refuse /\ UNCHANGED Guest
     \/ Fail /\ UNCHANGED Guest
  /\ UNCHANGED <<pidFile, held>>

-----------------------------------------------------------------------------
(* stop and destroy *)

\* Where a call goes once no guest is left, and once its mounts are gone.
Rest == IF op.call = "stop" THEN "done" ELSE IF kind = "firecracker" THEN "cleanup" ELSE "files"
\* Mutant: bhyve's device stays behind.
AfterExitLeaving == IF kind = "jail" THEN "devfs" ELSE Rest

AfterExit == CASE kind = "bhyve" -> "device" [] kind = "jail" -> "devfs" [] OTHER -> Rest

HowToEnd == CASE kind = "firecracker" -> "powerdown"
              [] kind = "qemu" /\ op.call = "stop" -> "powerdown"
              [] kind = "docker" /\ op.call = "destroy" -> "files"
              [] OTHER -> "terminate"

Find ==
  /\ op.call \in {"stop", "destroy"} /\ At("find")
  /\ \/ Found = {None} /\ Go(AfterExit) /\ Sound
     \/ Found = {} /\ Refuse
     \/ \E p \in Found \ {None} : GoWith(HowToEnd, p) /\ Sound
     \/ Fail
  /\ UNCHANGED Host

\* A cooperative guest may shut down by itself (GuestEnds) while it is asked to;
\* a paused Firecracker guest is resumed first.
Powerdown ==
  /\ At("powerdown")
  /\ \/ op.pid \notin Guests /\ Go(Rest) /\ Sound /\ UNCHANGED mode
     \/ kind = "firecracker" /\ mode = "paused" /\ mode' = "running" /\ UNCHANGED <<op, reply, faults>>
     \/ Go("terminate") /\ Sound /\ UNCHANGED mode
     \/ Fail /\ UNCHANGED mode
  /\ UNCHANGED <<proc, pidFile, held>>

\* Mutant: the recorded process is signalled without another look.
TargetRecorded == IF kind \in {"qemu", "firecracker"} THEN {op.pid} ELSE Guests

\* terminate looks at the arguments of the process again before each signal;
\* bhyve looks its process up again, docker and jail name their guest.
Target == IF kind \in {"qemu", "firecracker"} THEN {op.pid} \cap Guests ELSE Guests

Terminate ==
  /\ op.call \in {"stop", "destroy"} /\ At("terminate")
  /\ \/ \E p \in Target : Ends(p) /\ Go(AfterExit) /\ Sound
     \/ Target = {} /\ UNCHANGED Guest /\ Go(AfterExit) /\ Sound
     \/ Fail /\ UNCHANGED Guest
     \/ \E p \in Target : Ends(p) /\ Fail
  /\ held' \in {held} \cup (IF kind = "jail" THEN {held \ {"devfs"}} ELSE {})
  /\ UNCHANGED pidFile

\* Mutant: a device that is gone is an error.
UnloadPresent ==
  /\ kind = "bhyve" /\ At("device")
  /\ \/ /\ "device" \in held /\ held' = held \ {"device"}
        /\ Go(IF op.call = "create" THEN "record" ELSE Rest) /\ Sound
     \/ "device" \notin held /\ Refuse /\ UNCHANGED held
  /\ UNCHANGED <<Guest, pidFile>>

\* A device that is not known to be the VM's is not destroyed.
Unload ==
  /\ kind = "bhyve" /\ At("device")
  /\ \/ /\ ("device" \in held => "disk" \in held)
        /\ held' = held \ {"device"}
        /\ Go(IF op.call = "create" THEN "record" ELSE Rest) /\ Sound
     \/ "device" \in held /\ "disk" \notin held /\ Refuse /\ UNCHANGED held
     \/ Fail /\ UNCHANGED held
  /\ UNCHANGED <<Guest, pidFile>>

Unmount ==
  /\ kind = "jail" /\ At("devfs")
  /\ \/ /\ held' = IF "root" \in held THEN held \ {"devfs"} ELSE held
        /\ Go(Rest) /\ Sound
     \/ Fail /\ UNCHANGED held
  /\ UNCHANGED <<Guest, pidFile>>

\* The files go one by one, in this order.
Files == [qemu |-> <<"pid", "monitor", "seed">>, firecracker |-> <<"sandbox", "pid", "log">>,
          bhyve |-> <<"pid", "disk", "log">>, jail |-> <<"conf", "root">>]

Remove ==
  /\ kind /= "docker" /\ At("files")
  /\ LET order == Files[kind]
         there == {i \in DOMAIN order : order[i] \in held}
         next == CHOOSE i \in there : \A j \in there : i <= j
     IN \/ there = {} /\ Say("ok") /\ Sound /\ UNCHANGED <<held, pidFile>>
        \/ /\ there /= {} /\ held' = held \ {order[next]}
           /\ pidFile' = IF order[next] = "pid" THEN None ELSE pidFile
           /\ Sound /\ UNCHANGED <<op, reply>>
        \/ Fail /\ UNCHANGED <<held, pidFile>>
  /\ UNCHANGED Guest

\* docker rm -f ends the container and removes it; when it fails it may have
\* ended it.
RemoveContainer ==
  /\ kind = "docker" /\ At("files")
  /\ \/ Ended /\ held' = held \ {"container"} /\ Say("ok") /\ Sound
     \/ Fail /\ (Ended \/ UNCHANGED Guest) /\ UNCHANGED held
  /\ UNCHANGED pidFile

Done == op.call /= None /\ At("done") /\ Say("ok") /\ Sound /\ UNCHANGED Host

-----------------------------------------------------------------------------
(* state *)

Query ==
  /\ op.call = "state" /\ At("find")
  /\ \/ kind = "docker" /\ ~Present /\ Say("failed") /\ Sound
     \/ Found = {None} /\ kind /= "docker" /\ Say("stopped") /\ Sound
     \/ kind = "docker" /\ Present /\ Guests = {} /\ Say("stopped") /\ Sound
     \/ Present /\ Guests /= {} /\ Say(mode) /\ Sound
     \/ Found = {} /\ Refuse
     \/ Fail
  /\ UNCHANGED Host

-----------------------------------------------------------------------------
(* The agent's calls and the world around them *)

\* The agent serialises the calls of a VM. Once its deletion has begun only
\* destroy is called again, and nothing after it has succeeded.
FirstStep == [create |-> "check", start |-> "resume", stop |-> "find",
              destroy |-> "find", state |-> "find"]
Destroyed == reply.call = "destroy" /\ reply.said = "ok"

Call(c) ==
  /\ op = Idle /\ ~Destroyed /\ (doomed => c = "destroy")
  /\ op' = [call |-> c, at |-> FirstStep[c], pid |-> None]
  /\ reply' = Silent /\ doomed' = (c = "destroy")
  /\ UNCHANGED <<kind, Host, late, faults, crashes>>

Env == UNCHANGED <<kind, pidFile, op, reply, doomed, late>>

GuestBoots == /\ mode = "booting" /\ mode' = "running"
              /\ UNCHANGED <<proc, held, faults, crashes>> /\ Env

GuestEnds == \E p \in Guests : Ends(p) /\ UNCHANGED <<held, faults, crashes>> /\ Env

\* Somebody pauses the guest through its monitor, socket or container.
Pause == /\ kind \in {"qemu", "firecracker", "docker"} /\ Guests /= {} /\ mode = "running"
         /\ mode' = "paused" /\ Fault
         /\ UNCHANGED <<proc, held, crashes>> /\ Env

\* Other processes come and go, also under a process id the VM had.
OtherStarts == \E p \in Free : /\ proc' = [proc EXCEPT ![p] = "other"]
                              /\ UNCHANGED <<mode, held, faults, crashes>> /\ Env
OtherEnds == \E p \in Pids : /\ proc[p] = "other" /\ Ends(p)
                            /\ UNCHANGED <<held, faults, crashes>> /\ Env

\* docker run, jail -c and bhyveload are not found by what they will become.
Launching == \/ kind \in {"docker", "jail"} /\ At("launch")
             \/ kind = "bhyve" /\ At("lay")

AgentCrash ==
  /\ op /= Idle /\ crashes < MaxCrashes /\ crashes' = crashes + 1
  /\ op' = Idle
  /\ late' \in {late} \cup (IF Launching /\ late = None THEN {"pending"} ELSE {})
  /\ UNCHANGED <<kind, Host, reply, doomed, faults>>

ComesLate ==
  /\ late = "pending" /\ late' = "came"
  /\ IF kind = "bhyve" THEN held' = held \cup Laid /\ UNCHANGED Guest
     ELSE ~Taken /\ held' = held \cup Started[kind] /\ Begins
  /\ UNCHANGED <<kind, pidFile, op, reply, doomed, faults, crashes>>

\* Memory, mounts and kernel devices are gone; files and containers are not.
HostReboot ==
  /\ crashes < MaxCrashes /\ crashes' = crashes + 1
  /\ op' = Idle /\ proc' = [p \in Pids |-> "free"]
  /\ held' = held \ {"device", "devfs"}
  /\ late' = IF late = "pending" THEN None ELSE late
  /\ UNCHANGED <<kind, mode, pidFile, reply, doomed, faults>>

Steps == \/ Check \/ Seed \/ Clear \/ CleanJail \/ Record \/ Lay \/ Launch \/ WritePid \/ Boot
         \/ Resume \/ Find \/ Powerdown \/ Terminate \/ Unload \/ Unmount
         \/ Remove \/ RemoveContainer \/ Done \/ Query
EngineStep == Steps /\ Stays

Next ==
  \/ EngineStep
  \/ \E c \in Calls : Call(c)
  \/ GuestBoots \/ GuestEnds \/ Pause \/ OtherStarts \/ OtherEnds
  \/ AgentCrash \/ ComesLate \/ HostReboot

Spec == Init /\ [][Next]_vars

\* The agent's thread keeps running the call it is in, and a deletion that was
\* interrupted is asked for again.
FairSpec == Spec /\ WF_vars(EngineStep) /\ WF_vars(doomed /\ Call("destroy"))

-----------------------------------------------------------------------------
(* Properties *)

Members == {"seed", "monitor", "pid", "sandbox", "jail", "log", "container",
            "disk", "device", "root", "conf", "devfs"}

\* The types of the variables.
TypeOK ==
  /\ kind \in Kinds
  /\ proc \in [Pids -> {"free", "guest", "other"}]
  /\ mode \in {"booting", "running", "paused"}
  /\ pidFile \in Pids \cup {None}
  /\ held \subseteq Members
  /\ op.call \in Calls \cup {None} /\ reply.call \in Calls \cup {None}
  /\ op.pid \in Pids \cup {None, "container"}
  /\ doomed \in BOOLEAN /\ late \in {None, "pending", "came"}
  /\ faults \in 0..MaxFaults /\ crashes \in 0..MaxCrashes

\* No VM executes twice, whatever calls were cut off and made again: two
\* executions would write one disk (the duplicate-launch checks of create).
OneExecution == Cardinality(Guests) <= 1

\* A live guest can always be told to be the VM's own, so that no call is
\* refused for good: what identifies it is written before it is launched and
\* removed after it has ended (Sandbox::load, BhyveEngine::pid, JailEngine::query).
Identifiable == late /= "came" => Credible

\* No step of an engine ends a process that is not the VM's, although process
\* ids outlive reboots in the PID file and are given out again (terminate).
OthersUntouched ==
  [][EngineStep => \A p \in Pids : proc[p] = "other" => proc'[p] = "other"]_vars

\* The engines keep the contract of the trait: what an answer says is so.
Contract == INSTANCE VmEngine WITH
  call <- op.call, exec <- Guests /= {}, left <- held /= {}
KeepsContract == Contract!Spec

\* Once failures stop, a deletion that is asked for again completes, wherever
\* it was cut off.
DestroyCompletes == doomed ~> Destroyed \/ late = "came"
=============================================================================
