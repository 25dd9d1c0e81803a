SPECIFICATION Spec
CONSTANTS
  Names <- MCNames
  NodePath <- MCNodePath
  Unlisted <- MCUnlisted
  Refused <- MCRefused
  Given <- MCGiven
  Shared <- MCShared
  MaxDepth = 3
  IntMax = 1
  RosValues <- MCRosValues
  Items <- MCItems
  MaxBatch = 2
INVARIANTS
  WriteBackKeeps
  BatchEchoed
