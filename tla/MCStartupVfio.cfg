SPECIFICATION Spec
CONSTANTS
  MaxTotalChips = 16
  IntLimit = 128
  Accels <- TwoAccels
  Groups <- ThreeGroups
  Pci <- GroupPci
  Sources <- TwoSources
  Offers <- PlainOffers
  Flags <- FewFlags
  MaxChanges = 0
PROPERTIES
  ConfiguredNodeStarts
