SPECIFICATION FairSpec
CONSTANTS
  p1 = p1
  p2 = p2
  p3 = p3
  Pids <- ThreePids
  Kinds <- AllKinds
  MaxFaults = 2
  MaxCrashes = 2
INVARIANTS
  OneExecution
  Identifiable
PROPERTIES
  OthersUntouched
  KeepsContract
  DestroyCompletes
