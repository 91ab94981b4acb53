SPECIFICATION FairSpec
CONSTANTS
  MaxTotalChips = 16
  IntLimit = 128
  Accels <- TwoAccels
  Groups <- ThreeGroups
  Pci <- GroupPci
  Sources <- TwoSources
  Offers <- MoreOffers
  Flags <- ThreeFlags
  MaxChanges = 1
INVARIANTS
  TypeOK
  SharedNodeIsWholeSlice
  SharedNodeIsSingleHost
  SharingIsHonoured
  GivenLabelsHold
  InferredTopologyFits
  CoresAreExact
PROPERTIES
  NodeComesUp
  SignalEndsProcess
