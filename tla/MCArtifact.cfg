CONSTANTS
  LimitChoices <- MCLimitChoices
  FormatLimits <- MCLimits
  Documents <- MCDocuments
  Objects <- MCObjects
  Tensors <- MCTensors
  PageSizes = {2, 4}
  HeaderBytes = 2
  HashBytes = 1
  MaxDimension = 4
  MaxRank = 2
SPECIFICATION ArtifactSpec
INVARIANTS AcceptsExactly ManifestCovers LoadedIsDeclared OneTree
CHECK_DEADLOCK FALSE
