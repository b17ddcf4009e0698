SPECIFICATION Spec
CONSTANTS
  v1 = v1
  v2 = v2
  c1 = c1
  Vms = {v1, v2, c1}
  Containers = {c1}
  Guarded = {v1}
  PortsOf <- OnePort
  Ranges <- TwoRanges
  Runtimes = {"docker", "podman"}
  Cpus = 1
  Disks = 2
  MaxOps = 3
  MaxFaults = 1
  MaxCrashes = 2
INVARIANTS
  AddressesUnique
  NothingOrphaned
  GuestsGuarded
  NeverOvercommitted
  BindingsKept
  LossNoticed
CHECK_DEADLOCK FALSE
