SPECIFICATION Spec
CONSTANTS
  c1 = c1
  c2 = c2
  h1 = h1
  h2 = h2
  Claims = {c1, c2}
  Handlers = {h1, h2}
  Chips <- TwoChips
  Allocations <- OneAllocation
  DriverName = "tpu.google.com"
  NotPrepared = NotPrepared
  NoHandler = NoHandler
  NoCall = NoCall
  Policies = {FALSE}
  MaxFaults = 1
SYMMETRY Symmetry
INVARIANTS
  NoDoubleBooking
