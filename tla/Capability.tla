----------------------------- MODULE Capability -----------------------------
(* What an engine on a storage backend can do by design, what a host can do  *)
(* given its tools, and what a request needs: the rules the controller       *)
(* places by and the agent admits by. A host answers either with a report    *)
(* scoped to its engines or, when its agent is old, with a set of tags.      *)
EXTENDS Naturals

Engines == {"qemu", "firecracker", "docker", "bhyve", "jail"}
Storages == {"file", "zvol"}
Linux == {"qemu", "firecracker"}

\* The engines that have a feature by design.
Design == [run |-> Engines, ports |-> Engines, rootkeys |-> {"jail"},
           config |-> {"firecracker"}, egress |-> Linux \union {"bhyve"},
           backup |-> Linux \union {"bhyve"}, ssh |-> Linux, isolation |-> Linux,
           disk |-> Linux, resources |-> Linux]
Features == DOMAIN Design

Supported(feature, engine, storage) ==
  /\ engine \in Design[feature]
  /\ engine = "jail" => storage = "file"
  /\ feature = "backup" /\ engine = "bhyve" => storage = "zvol"

\* The tags of older agents.
Tags == {"ssh_bootstrap", "guest_config", "isolated_network", "bhyve_deny_outgoing",
         "qemu_resources", "firecracker_resources", "firecracker_disk_resize",
         "firecracker_jailer", "firecracker_zvol", "disk_backup_v1"}

\* missing_legacy: the tags a feature takes.
Takes(feature, engine, storage) ==
  CASE feature = "run" /\ engine = "firecracker" ->
         {"firecracker_jailer"} \union (IF storage = "zvol" THEN {"firecracker_zvol"} ELSE {})
    [] feature = "ssh" -> {"ssh_bootstrap"}
    [] feature = "config" -> {"guest_config"}
    [] feature = "isolation" -> {"isolated_network"}
    [] feature = "egress" /\ engine = "bhyve" -> {"bhyve_deny_outgoing"}
    [] feature = "disk" /\ engine = "firecracker" -> {"firecracker_disk_resize"}
    [] feature = "resources" /\ engine = "qemu" -> {"qemu_resources"}
    [] feature = "resources" /\ engine = "firecracker" -> {"firecracker_resources"}
    [] feature = "backup" -> {"disk_backup_v1"}
    [] OTHER -> {}

\* Report::from_probes: what a host enables for one engine.
Enabled(host, feature, engine) ==
  /\ Supported(feature, engine, host.storage)
  /\ engine \in host.engines
  /\ Takes(feature, engine, host.storage) \subseteq host.tags
  /\ feature = "backup" => host.backups

\* Report::require. A report this version does not know enables nothing.
Reported(host, feature, engine) ==
  Supported(feature, engine, host.storage) /\ host.report = "known" /\ Enabled(host, feature, engine)

\* require_host: the report when there is one, else the tags.
Capable(host, feature, engine) ==
  IF host.report # "none" THEN Reported(host, feature, engine)
  ELSE /\ Supported(feature, engine, host.storage)
       /\ Takes(feature, engine, host.storage) \subseteq host.tags

RequireHost(host, engine, features) ==
  /\ "run" \in features => engine \in host.engines
  /\ \A feature \in features : Capable(host, feature, engine)

\* resolve_options: keys ask for the SSH bootstrap, but for a jail's root keys.
Ssh(spec) == spec.keys /\ Supported("ssh", spec.engine, "file")

\* What a request may ask of an engine at all, whatever the host.
Valid(spec) ==
  LET asks(field, feature) == field => Supported(feature, spec.engine, "file")
  IN /\ asks(spec.disk > 0, "disk") /\ asks(spec.egress, "egress")
     /\ asks(spec.config, "config") /\ asks(spec.isolated, "isolation")
     /\ spec.keys => Ssh(spec) \/ Supported("rootkeys", spec.engine, "file")

\* Create::requirements: what a request of these fields needs of a host.
Needs(spec) ==
  LET engine == spec.engine
  IN {feature \in Features :
       \/ feature = "run"
       \/ feature = "disk" /\ (spec.disk > 0 \/ engine = "qemu")
       \/ feature = "ports" /\ (spec.ports \/ spec.keys \/ engine \in {"qemu", "bhyve", "jail"})
       \/ feature = "ssh" /\ (Ssh(spec) \/ (spec.keys /\ engine # "jail"))
       \/ feature = "rootkeys" /\ spec.keys /\ engine = "jail"
       \/ feature = "config" /\ (spec.config \/ (spec.keys /\ engine = "firecracker"))
       \/ feature = "egress" /\ spec.egress
       \/ feature = "isolation" /\ spec.isolated}
=============================================================================
