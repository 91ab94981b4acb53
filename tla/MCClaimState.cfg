SPECIFICATION Spec
CONSTANTS
  c1 = c1
  c2 = c2
  h1 = h1
  h2 = h2
  Claims = {c1, c2}
  Handlers = {h1, h2}
  Chips <- TwoChips
  Allocations <- MixedAllocations
  DriverName = "tpu.google.com"
  NotPrepared = NotPrepared
  NoHandler = NoHandler
  NoCall = NoCall
  Policies = {TRUE, FALSE}
  MaxFaults = 2
SYMMETRY Symmetry
INVARIANTS
  TypeOK
  RunningClaimIsBacked
  SpecMatchesCheckpoint
  LogsHaveATenant
  CommonEditsInPlace
  EveryTenantHoldsEveryChip
PROPERTIES
  PreparedOnce
  NoLostUpdate
  ImplementsLedger
