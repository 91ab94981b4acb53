SPECIFICATION FairSpec
CONSTANTS
  MaxTotalChips = 16
  IntLimit = 128
  Slices <- FourSlices
  Configs <- FourConfigs
  LabelTexts <- FourTexts
  EnvTexts <- FourEnvs
  SharesFlags <- Shared
  Polls = 1
INVARIANTS
  TypeOK
  SharedNodeIsItsSlice
  CountedNodeStarts
PROPERTIES
  ImplementsReadLabels
  StartupAdvances
  DiscoveryEnds
