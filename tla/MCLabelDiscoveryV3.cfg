SPECIFICATION Spec
CONSTANTS
  MaxTotalChips = 16
  IntLimit = 128
  Slices <- V3Pod
  Configs <- V3Configs
  LabelTexts <- V3Texts
  EnvTexts <- V3Envs
  SharesFlags <- Shared
  Polls = 1
INVARIANTS
  MultiHostNeverShares
