------------------------------ MODULE MCParts ------------------------------
(* The parts of the system that share no state, side by side in one run: the *)
(* files of a backup, the fleet's placement, deployments and image recipes.  *)
(* One of them moves in each behaviour, the others rest in an initial state, *)
(* so the run is the sum of four and not their product.                      *)
EXTENDS ReflinkArtifact, Fleet, Deploy, Images, TLC

VARIABLE part   \* the one that moves

partsVars == <<vars, fleetVars, deployVars, imageVars, part>>

\* Bounds of remote deployments: one service on each host, one mount, one edit.
RemoteInit == mode = "remote" => disk["agent"] = Missing
RemoteStep == mode = "remote" => edits' <= 1 /\ \A s \in Services : wanted'[s] \subseteq {"m1"}

PartsInit ==
  /\ part \in {"artifact", "fleet", "deploy", "images"}
  /\ Init /\ FleetInit /\ DeployInit /\ ImagesInit
  /\ part # "fleet" => host = [h \in Hosts |-> CHOOSE facts \in Facts[h] : TRUE]
  /\ IF part = "deploy" THEN RemoteInit ELSE mode = "local" /\ disk = [s \in Services |-> Missing]
  /\ part # "images" => image = [r \in Recipes |-> "none"]

ArtifactPart == part = "artifact" /\ Next /\ UNCHANGED <<fleetVars, deployVars, imageVars, part>>
FleetPart == part = "fleet" /\ FleetNext /\ UNCHANGED <<vars, deployVars, imageVars, part>>
DeployPart == part = "deploy" /\ DeployNext /\ RemoteStep /\ UNCHANGED <<vars, fleetVars, imageVars, part>>
ImagesPart == part = "images" /\ ImagesNext /\ UNCHANGED <<vars, fleetVars, deployVars, part>>

\* The fairness of ReflinkArtifact.
ArtifactStep == part = "artifact" /\ Step /\ UNCHANGED <<fleetVars, deployVars, imageVars, part>>

PartsSpec ==
  /\ PartsInit
  /\ [][ArtifactPart \/ FleetPart \/ DeployPart \/ ImagesPart]_partsVars
  /\ WF_partsVars(ArtifactStep)

-----------------------------------------------------------------------------
(* The fleet: two hosts of different make, of which one may lose a tool and   *)
(* an image in a restart, and two environments, one of two VMs.              *)

Spec1(engine, image_, disk_, keys, config) ==
  [engine |-> engine, image |-> image_, disk |-> disk_, keys |-> keys, config |-> config,
   ports |-> FALSE, egress |-> FALSE, isolated |-> FALSE]
Host1(engines, storage_, tags, report, images) ==
  [engines |-> engines, storage |-> storage_, tags |-> tags, backups |-> TRUE,
   report |-> report, images |-> images]

TheMembers == "e1" :> <<"v1", "v2">> @@ "e2" :> <<"v3">>
TheSizes == "small" :> 1 @@ "large" :> 4
TheSpecs == {Spec1("qemu", "small", 0, FALSE, FALSE), Spec1("firecracker", "small", 0, TRUE, FALSE),
             Spec1("firecracker", "large", 0, FALSE, TRUE)}
TheFacts ==
  "h1" :> {Host1(Linux, "file", Tags, "known", TheSizes),
           Host1(Linux, "file", Tags \ {"ssh_bootstrap"}, "known", "small" :> 1 @@ "large" :> 0)}
  @@ "h2" :> {Host1({"firecracker"}, "zvol", Tags, "none", TheSizes)}
TheDisk == "h1" :> 5 @@ "h2" :> 2
TheMem == "h1" :> 3 @@ "h2" :> 2

\* Deployments: two services share this host, a third is on another.
TheHostOf == "ctl" :> "A" @@ "agent" :> "A" @@ "remote" :> "B"
TheLocal == {<<"agent">>, <<"ctl">>, <<"agent", "ctl">>}
TheRemote == {<<"ctl", "remote">>, <<"remote">>}
=============================================================================
