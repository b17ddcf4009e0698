SPECIFICATION Spec
CONSTANTS
  h1 = h1
  h2 = h2
  v1 = v1
  NoVm = NoVm
  Own = own
  Loops = {loop}
  Hosts = {h1}
  Vms = {v1}
  Home <- OneHost
  Sizes = {1}
  Kinds = {"create", "stop", "start"}
  EnvSize = 1
  MaxOps = 2
  MaxFailures = 0
  MaxCrashes = 0
  MaxElsewhere = 0
  MaxInspections = 1
INVARIANTS
  ConfirmedKept
