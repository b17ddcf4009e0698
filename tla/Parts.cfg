SPECIFICATION PartsSpec
CONSTANTS
  MaxCrashes = 2
  MaxFailures = 1
  CrashInWrite = TRUE
  Hosts = {"h1", "h2"}
  Vms = {"v1", "v2", "v3"}
  Envs = {"e1", "e2"}
  Members <- TheMembers
  Specs <- TheSpecs
  Facts <- TheFacts
  Sizes <- TheSizes
  DiskOf <- TheDisk
  MemOf <- TheMem
  DefaultDisk = 2
  ConfigDisk = 1
  MaxDisk = 4
  MaxHosts = 2
  MaxReads = 1
  MaxFaults = 1
  Services = {"ctl", "agent", "remote"}
  Controller = "ctl"
  HostOf <- TheHostOf
  LocalPlans <- TheLocal
  RemotePlans <- TheRemote
  LegacyKeys = {"k1", "k2"}
  NewKeys = {"n1"}
  ConfigKeys = {"c"}
  Mounts = {"m1", "m2"}
  MaxRuns = 3
  MaxEdits = 2
  MaxBreaks = 1
  Builders = {"b1", "b2"}
  Releases = 2
  MaxBuilds = 3
  MaxKills = 1
INVARIANTS
  PublishedWhole
  PlansFit
  AdmissionAgrees
  StartsGuarded
  DeployedAlike
  CatalogWhole
  MountedKept
PROPERTIES
  ImplementsArtifact
  CleanRemoved
  KeysKept
CHECK_DEADLOCK FALSE
