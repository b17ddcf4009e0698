------------------------------- MODULE Deploy -------------------------------
(* tt deploy, on this host or over SSH: it settles one API key, then installs *)
(* each service in turn (binary, key file, mount guards, unit) and restarts   *)
(* it. A run may stop anywhere, by an error, a lost connection or a kill, and *)
(* is repeated; the script it had on another host may go on without it, and   *)
(* beside its repetition. Hosts reboot and services are respawned meanwhile.  *)
(* What a run wrote stays written: a power loss that drops unsynced writes is *)
(* left out.                                                                  *)
EXTENDS Naturals, Sequences, FiniteSets

CONSTANTS Services, Controller, HostOf,
          LocalPlans, RemotePlans,   \* the services a run may deploy, in order
          LegacyKeys, NewKeys, ConfigKeys,
          Mounts,                    \* the mounts an operator may guard by hand
          MaxRuns, MaxEdits, MaxBreaks

NoKey == "no key"
Torn == "torn"     \* a secret that was created but not written
Keys == LegacyKeys \union NewKeys \union ConfigKeys

ASSUME KeysAssumption == {NoKey, Torn} \intersect Keys = {}

\* A local run deploys services of its own host.
ASSUME PlansAssumption ==
  /\ IsFiniteSet(Services)
  /\ LocalPlans \union RemotePlans \subseteq Seq(Services) \ {<<>>}
  /\ \A plan \in LocalPlans : \A i \in DOMAIN plan : HostOf[plan[i]] = HostOf[Controller]

ASSUME RunsAssumption == MaxRuns \in Nat \ {0}

VARIABLES
  mode,     \* local or remote
  secret,   \* etc/api-key, or the file beside the deployment's configuration
  disk,     \* of each service: binary, key file, unit, drop-in
  loaded,   \* the unit the service manager knows
  live,     \* the process
  wanted,   \* the mounts its operator guarded
  lost,     \* history: those of them that a deployment is known to lose
  runs,     \* the deployments, by the version they install
  round,    \* the latest
  edits, breaks

deployVars == <<mode, secret, disk, loaded, live, wanted, lost, runs, round, edits, breaks>>

Unit(is, guards) == [is |-> is, guards |-> guards]
Down == [up |-> FALSE, bin |-> 0, key |-> NoKey, guards |-> {}]

\* A run: where it stands, whether its script was left alone, a file written by
\* half, what it deploys and has yet to, its key and the guards it has read;
\* history: services whose state it could not ask for, and those on which
\* another script worked beside it. One that failed is forgotten.
Resting == [at |-> "idle", alone |-> FALSE, half |-> FALSE, plan |-> <<>>, todo |-> <<>>,
            key |-> NoKey, guards |-> {}, unasked |-> {}, beside |-> {}]

\* The steps of a service. Over SSH they are the script, which another host runs.
Steps == {"bin", "env", "guards", "unit", "reload", "query", "start", "restart", "check"}
AtWork(r) == runs[r].at \in Steps
Service(r) == Head(runs[r].todo)
WorksOn(r, s) == AtWork(r) /\ Service(r) = s

\* The operator has the prompt back.
Stopped == runs[round].at \in {"idle", "done"} \/ runs[round].alone

Loaded(d) == Unit(d.unit.is, d.unit.guards \union d.dropin)
Process(d, unit) == IF unit.is = "whole" /\ d.bin # 0 /\ d.env # NoKey
                    THEN [up |-> TRUE, bin |-> d.bin, key |-> d.env, guards |-> unit.guards] ELSE Down
OnHost(h) == {s \in Services : HostOf[s] = h}

\* The service manager of a host reads its units anew.
Reread(h, files) == [s \in Services |-> IF s \in OnHost(h) THEN Loaded(files[s]) ELSE loaded[s]]

Missing == [bin |-> 0, env |-> NoKey, unit |-> Unit("none", {}), dropin |-> {}]
Legacy == {[bin |-> 1, env |-> key, unit |-> Unit("whole", {}), dropin |-> {}] : key \in LegacyKeys}

\* Services of an earlier version may be there, each with a key of its own. A
\* local deployment has but its own host.
DeployInit ==
  /\ mode \in {"local", "remote"}
  /\ disk \in [Services -> {Missing} \union Legacy]
  /\ mode = "local" => \A s \in Services : HostOf[s] = HostOf[Controller] \/ disk[s] = Missing
  /\ loaded = [s \in Services |-> Loaded(disk[s])]
  /\ live = [s \in Services |-> Process(disk[s], Loaded(disk[s]))]
  /\ secret = NoKey /\ wanted = [s \in Services |-> {}] /\ lost = [s \in Services |-> {}]
  /\ runs = [r \in 1 .. MaxRuns |-> Resting]
  /\ round = 1 /\ edits = 0 /\ breaks = 0

Break == breaks < MaxBreaks /\ breaks' = breaks + 1

-----------------------------------------------------------------------------
(* The key *)

Using(services) == {disk[s].env : s \in services} \ {NoKey}
Generated == NewKeys \ Using(Services)   \* any fresh one

\* Mutant: a local run imports the keys of the services it deploys only.
ImportsOwn(plan) == Using({plan[i] : i \in DOMAIN plan})

\* The keys in use that a run without a saved key goes by: both services' of
\* this host, or the controller's, else the agent's, of the first target.
Imports(plan) ==
  LET here == OnHost(HostOf[Head(plan)])
  IN IF mode = "local" THEN Using(OnHost(HostOf[Controller]))
     ELSE IF Using(here \intersect {Controller}) # {} THEN Using({Controller}) ELSE Using(here)

Goes(r, record) == runs' = [runs EXCEPT ![r] = record]
To(r, at) == Goes(r, [runs[r] EXCEPT !.at = at])
Fails(r) == Goes(r, Resting)

Started(plan, at, key) ==
  [Resting EXCEPT !.at = at, !.plan = plan, !.todo = plan, !.key = key]

\* Only a distributed deployment's configuration may name the key, which then
\* replaces the saved one as a whole.
Begin(plan) ==
  /\ Stopped /\ round < MaxRuns
  /\ round' = round + 1
  /\ \/ Goes(round + 1, Started(plan, "key", NoKey)) /\ UNCHANGED secret
     \/ \E key \in ConfigKeys :
          mode = "remote" /\ Goes(round + 1, Started(plan, "bin", key)) /\ secret' = key
  /\ UNCHANGED <<mode, disk, loaded, live, wanted, lost, edits, breaks>>

\* A saved key is used as it is, and an empty one refused; else the keys in use
\* must agree, and only when there is none is one generated.
SettleKey ==
  /\ runs[round].at = "key"
  /\ LET found == Imports(runs[round].plan)
     IN \/ secret \in Keys /\ Goes(round, [runs[round] EXCEPT !.at = "bin", !.key = secret])
        \/ (secret = Torn \/ (secret = NoKey /\ Cardinality(found) > 1)) /\ Fails(round)
        \/ /\ secret = NoKey /\ Cardinality(found) <= 1
           /\ \E key \in IF found = {} THEN Generated ELSE found :
                Goes(round, [runs[round] EXCEPT !.at = "save", !.key = key])
  /\ UNCHANGED <<mode, secret, disk, loaded, live, wanted, lost, round, edits, breaks>>

\* save_secret creates the file, then writes it.
SaveKey ==
  /\ runs[round].at = "save"
  /\ IF runs[round].half
     THEN secret' = runs[round].key /\ Goes(round, [runs[round] EXCEPT !.at = "bin", !.half = FALSE])
     ELSE secret' = Torn /\ Goes(round, [runs[round] EXCEPT !.half = TRUE])
  /\ UNCHANGED <<mode, disk, loaded, live, wanted, lost, round, edits, breaks>>

-----------------------------------------------------------------------------
(* A service *)

\* Mutant: the unit is replaced before its guards are read.
AfterUnitFirst == [bin |-> "env", env |-> "unit", unit |-> "guards", guards |-> "reload",
                   reload |-> IF mode = "local" THEN "query" ELSE "restart"]

\* The order of a service's steps.
After == [bin |-> "env", env |-> "guards", guards |-> "unit", unit |-> "reload",
          reload |-> IF mode = "local" THEN "query" ELSE "restart"]

Writes(r, change) ==
  /\ disk' = [disk EXCEPT ![Service(r)] = change]
  /\ UNCHANGED <<mode, secret, loaded, live, wanted, round, edits>>

Loses(s, guards) == lost' = [lost EXCEPT ![s] = @ \union guards]

\* Other scripts on the same service: those of earlier runs that were left alone.
Others(r) == {q \in (1 .. round) \ {r} : WorksOn(q, Service(r))}

\* Binaries and key files are staged and renamed. Where scripts meet on a service,
\* nothing is said of its guards from here on.
InstallBin(r) ==
  /\ runs[r].at = "bin"
  /\ LET s == Service(r)
     IN IF Others(r) = {} THEN To(r, After.bin) /\ UNCHANGED lost
        ELSE /\ Goes(r, [runs[r] EXCEPT !.at = After.bin, !.beside = @ \union {s}])
             /\ Loses(s, wanted[s])
  /\ Writes(r, [disk[Service(r)] EXCEPT !.bin = r]) /\ UNCHANGED breaks
WriteEnv(r) ==
  /\ runs[r].at = "env" /\ To(r, After.env)
  /\ Writes(r, [disk[Service(r)] EXCEPT !.env = runs[r].key]) /\ UNCHANGED <<lost, breaks>>

\* Guards found in the unit replace the drop-in, which is truncated, then written.
WriteGuards(r) ==
  /\ runs[r].at = "guards"
  /\ LET s == Service(r)
         found == disk[s].unit.guards
     IN \/ ~runs[r].half /\ found = {} /\ To(r, After.guards) /\ Writes(r, disk[s]) /\ UNCHANGED lost
        \/ /\ ~runs[r].half /\ found # {} /\ Goes(r, [runs[r] EXCEPT !.half = TRUE, !.guards = found])
           /\ Writes(r, [disk[s] EXCEPT !.dropin = {}])
           /\ Loses(s, disk[s].dropin \ found)
        \/ /\ runs[r].half /\ Goes(r, [runs[r] EXCEPT !.half = FALSE, !.at = After.guards])
           /\ Writes(r, [disk[s] EXCEPT !.dropin = runs[r].guards]) /\ UNCHANGED lost
  /\ UNCHANGED breaks

\* A local run takes a unit that it cannot read for one without guards; the
\* remote script ends.
ReadFails(r) ==
  /\ runs[r].at = "guards" /\ ~runs[r].half /\ mode = "local" /\ Break
  /\ To(r, After.guards) /\ Writes(r, disk[Service(r)])
  /\ Loses(Service(r), disk[Service(r)].unit.guards \ disk[Service(r)].dropin)

\* The unit, too, is truncated, then written.
WriteUnit(r) ==
  /\ runs[r].at = "unit"
  /\ IF runs[r].half THEN /\ Goes(r, [runs[r] EXCEPT !.half = FALSE, !.at = After.unit])
                          /\ Writes(r, [disk[Service(r)] EXCEPT !.unit = Unit("whole", {})])
     ELSE /\ Goes(r, [runs[r] EXCEPT !.half = TRUE])
          /\ Writes(r, [disk[Service(r)] EXCEPT !.unit = Unit(Torn, {})])
  /\ UNCHANGED <<lost, breaks>>

Reload(r) ==
  /\ runs[r].at = "reload" /\ To(r, After.reload)
  /\ loaded' = Reread(HostOf[Service(r)], disk)
  /\ UNCHANGED <<mode, secret, disk, live, wanted, lost, round, edits, breaks>>

\* A local run asks whether the service is active, and takes no answer for no.
Query(r) ==
  /\ runs[r].at = "query"
  /\ \/ To(r, IF live[Service(r)].up THEN "restart" ELSE "start") /\ UNCHANGED breaks
     \/ Break /\ Goes(r, [runs[r] EXCEPT !.at = "start", !.unasked = @ \union {Service(r)}])
  /\ UNCHANGED <<mode, secret, disk, loaded, live, wanted, lost, round, edits>>

\* Mutant: an active service is started again, not restarted.
RestartedStart(s) == IF live[s].up THEN {live[s]} ELSE {Process(disk[s], loaded[s]), Down}

\* The service manager reports a start; the process may still end at once.
Restarted(s) == {Process(disk[s], loaded[s]), Down}

Restart1(r) ==
  /\ runs[r].at = "restart" /\ To(r, "check")
  /\ \E process \in Restarted(Service(r)) : live' = [live EXCEPT ![Service(r)] = process]
  /\ UNCHANGED <<mode, secret, disk, loaded, wanted, lost, round, edits, breaks>>

\* To start a service that runs does nothing.
Start(r) ==
  /\ runs[r].at = "start" /\ To(r, "check")
  /\ IF live[Service(r)].up THEN UNCHANGED live
     ELSE \E process \in Restarted(Service(r)) : live' = [live EXCEPT ![Service(r)] = process]
  /\ UNCHANGED <<mode, secret, disk, loaded, wanted, lost, round, edits, breaks>>

\* A local run fails on an inactive service; the remote script ends well all the
\* same, and when it was left alone that is the end.
CheckActive(r) ==
  /\ runs[r].at = "check"
  /\ IF runs[r].alone \/ (mode = "local" /\ ~live[Service(r)].up) THEN Fails(r)
     ELSE Goes(r, [runs[r] EXCEPT !.todo = Tail(@), !.at = IF Len(runs[r].todo) = 1 THEN "done" ELSE "bin"])
  /\ UNCHANGED <<mode, secret, disk, loaded, live, wanted, lost, round, edits, breaks>>

-----------------------------------------------------------------------------
(* What else happens *)

\* A command fails, or the run is killed; but the end of an SSH client, by its
\* timeout or with the run, is not the end of the script it sent.
Interrupt ==
  /\ ~Stopped /\ Break
  /\ \/ Fails(round)
     \/ mode = "remote" /\ AtWork(round) /\ Goes(round, [runs[round] EXCEPT !.alone = TRUE])
  /\ UNCHANGED <<mode, secret, disk, loaded, live, wanted, lost, round, edits>>

\* A script left alone ends where it fails or has nobody to write to.
AloneEnds(r) ==
  /\ runs[r].alone /\ Fails(r)
  /\ UNCHANGED <<mode, secret, disk, loaded, live, wanted, lost, round, edits, breaks>>

\* A process ends and is started again; so does a late command of a killed run.
Respawn(s) ==
  /\ loaded[s].is = "whole" /\ Break
  /\ \E process \in Restarted(s) : live' = [live EXCEPT ![s] = process]
  /\ UNCHANGED <<mode, secret, disk, loaded, wanted, lost, runs, round, edits>>

\* Anybody may have the service manager read its units anew; so may a killed run,
\* late.
Rereads(h) ==
  /\ Break /\ loaded' = Reread(h, disk) /\ loaded' # loaded
  /\ UNCHANGED <<mode, secret, disk, live, wanted, lost, runs, round, edits>>

\* Runs at work on the host stop with it.
Reboot(h) ==
  /\ Break
  /\ loaded' = Reread(h, disk)
  /\ live' = [s \in Services |-> IF s \in OnHost(h) THEN Process(disk[s], Loaded(disk[s])) ELSE live[s]]
  /\ runs' = [r \in 1 .. MaxRuns |->
               IF runs[r].todo # <<>> /\ HostOf[Service(r)] = h /\ (mode = "local" \/ AtWork(r))
               THEN Resting ELSE runs[r]]
  /\ UNCHANGED <<mode, secret, disk, wanted, lost, round, edits>>

\* Operators edit a generated unit by hand, when no run of theirs is under way, and
\* restart its service. Nothing is said of a guard they write into a unit on which
\* a script that was left alone is at work.
Edit(s, m) ==
  /\ Stopped /\ edits < MaxEdits /\ edits' = edits + 1
  /\ disk[s].unit.is = "whole" /\ m \notin disk[s].unit.guards \union disk[s].dropin
  /\ disk' = [disk EXCEPT ![s].unit.guards = @ \union {m}]
  /\ loaded' = Reread(HostOf[s], disk')
  /\ live' = [live EXCEPT ![s] = Process(disk'[s], loaded'[s])]
  /\ wanted' = [wanted EXCEPT ![s] = @ \union {m}]
  /\ lost' = [lost EXCEPT ![s] = IF \E r \in 1 .. round : WorksOn(r, s) THEN @ \union {m} ELSE @ \ {m}]
  /\ UNCHANGED <<mode, secret, runs, round, breaks>>

\* They remove an empty secret, which every run refuses.
Discard ==
  /\ Stopped /\ secret = Torn /\ secret' = NoKey
  /\ UNCHANGED <<mode, disk, loaded, live, wanted, lost, runs, round, edits, breaks>>

ServiceStep(r) ==
  \/ InstallBin(r) \/ WriteEnv(r) \/ WriteGuards(r) \/ ReadFails(r) \/ WriteUnit(r)
  \/ Reload(r) \/ Query(r) \/ Restart1(r) \/ Start(r) \/ CheckActive(r)

DeployNext ==
  \/ \E plan \in IF mode = "local" THEN LocalPlans ELSE RemotePlans : Begin(plan)
  \/ SettleKey \/ SaveKey \/ Interrupt \/ Discard
  \/ \E r \in 1 .. round : ServiceStep(r) \/ AloneEnds(r)
  \/ \E s \in Services : Respawn(s) \/ \E m \in Mounts : Edit(s, m)
  \/ \E h \in {HostOf[s] : s \in Services} : Reboot(h) \/ Rereads(h)

DeploySpec == DeployInit /\ [][DeployNext]_deployVars

-----------------------------------------------------------------------------
(* Properties *)

\* A service whose operator guarded it against missing mounts never runs without
\* the guards, wherever a deployment stopped that moved them from the unit to the
\* drop-in, whichever came after it, and whenever the host reboots
\* (deploy.rs:528, deploy.rs:716). Three ways to lose one are excepted, each at
\* its step only: a local run could not read the unit (deploy.rs:718), it moved
\* guards of a later edit over it (deploy.rs:725), or two scripts, or a script and
\* an editor, were at work on the service at once (deploy.rs:304).
StartsGuarded == \A s \in Services : live[s].up => wanted[s] \ lost[s] \subseteq live[s].guards

\* Local deployments of one role after the other, interrupted ones included,
\* never replace a key that a service of the host already uses (deploy.rs:91).
KeysKept ==
  [][mode = "local" => \A s \in Services : disk[s].env # NoKey => disk'[s].env = disk[s].env]_deployVars

\* A deployment that ends well leaves one key, saved for the next: every service
\* it covered holds it with the run's binary, and none still runs with older ones
\* (deploy.rs:760, deploy.rs:935). Excepted are a process whose state the run could
\* not ask for, so that it started it instead of restarting it (deploy.rs:754), and
\* a service on which an earlier run's script was still at work (deploy.rs:310).
DeployedAlike ==
  runs[round].at = "done" =>
    /\ secret = runs[round].key
    /\ \A i \in DOMAIN runs[round].plan :
         LET s == runs[round].plan[i]
         IN s \notin runs[round].beside =>
              /\ disk[s].env = runs[round].key /\ disk[s].bin = round
              /\ live[s].up /\ s \notin runs[round].unasked =>
                   live[s].key = runs[round].key /\ live[s].bin = round
=============================================================================
