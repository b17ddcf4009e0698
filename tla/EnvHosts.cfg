SPECIFICATION Spec
CONSTANTS
  h1 = h1
  h2 = h2
  v1 = v1
  NoVm = NoVm
  Own = own
  Loops = {loop}
  Hosts = {h1, h2}
  Vms = {v1, v2}
  Home <- TwoHosts
  Sizes = {1}
  Kinds = {"create"}
  EnvSize = 2
  MaxOps = 1
  MaxFailures = 1
  MaxCrashes = 0
  MaxElsewhere = 0
  MaxInspections = 1
INVARIANTS
  VmsTracked
PROPERTIES
  DeletionStands
