SPECIFICATION Spec
CONSTANTS
  Clients <- OneClient
  Reconciler = "rec"
  Backend = "reflink"
  Sizes <- TwoSizes
  Budget = 4
  MaxRetired = 1
  MaxOps = 2
  MaxIssued = 3
  MaxMinted = 3
  MaxWrites = 1
  MaxCrashes = 1
  MaxFailures = 0
INVARIANTS
  SameCapacity
  ReservationCovers
  PublishedIntact
  NoStrays
PROPERTIES
  CreateCaptures
