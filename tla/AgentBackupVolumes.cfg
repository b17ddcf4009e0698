SPECIFICATION Spec
CONSTANTS
  Clients <- OneClient
  Reconciler = "rec"
  Backend = "zvol"
  Sizes <- OneSize
  Budget = 4
  MaxRetired = 2
  MaxOps = 2
  MaxIssued = 3
  MaxMinted = 4
  MaxWrites = 1
  MaxCrashes = 0
  MaxFailures = 1
INVARIANTS
  RollbackPossible
  NeverRepeated
PROPERTIES
  RestoreDelivers
