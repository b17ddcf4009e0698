SPECIFICATION FairSpec
CONSTANTS
  h1 = h1
  h2 = h2
  v1 = v1
  NoVm = NoVm
  Own = own
  Loops = {loop}
  Hosts = {h1}
  Vms = {v1}
  Home <- OneHost
  Sizes = {1, 2}
  Kinds = {"create", "delete", "start", "resize"}
  EnvSize = 1
  MaxOps = 2
  MaxFailures = 1
  MaxCrashes = 1
  MaxElsewhere = 0
  MaxInspections = 0
PROPERTIES
  DeletionCompletes
  ViewSettles
INVARIANTS
  ResizeRecorded
