SPECIFICATION FairSpec
CONSTANTS
  Clients <- OneClient
  Reconciler = "rec"
  Backend = "zvol"
  Sizes <- OneSize
  Budget = 4
  MaxRetired = 2
  MaxOps = 2
  MaxIssued = 2
  MaxMinted = 3
  MaxWrites = 0
  MaxCrashes = 1
  MaxFailures = 1
INVARIANTS
  StorageFence
PROPERTIES
  PendingSettles
  RetiredCleaned
  DeletionCompletes
