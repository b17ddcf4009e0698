SPECIFICATION Spec
CONSTANTS
  h1 = h1
  h2 = h2
  v1 = v1
  NoVm = NoVm
  Own = own
  Loops = {loop}
  Hosts = {h1}
  Vms = {v1, v2}
  Home <- OneHost
  Sizes = {1}
  Kinds = {"create", "start", "stop"}
  EnvSize = 1
  MaxOps = 2
  MaxFailures = 1
  MaxCrashes = 1
  MaxElsewhere = 1
  MaxInspections = 0
INVARIANTS
  ConfirmedKept
PROPERTIES
  ExpiryRespectsLifetime
SYMMETRY AnyVm
