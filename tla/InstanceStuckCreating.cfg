SPECIFICATION FairSpec
CONSTANTS
  Keys = {k1}
  NoKey = NoKey
  Names = {"a"}
  InvalidNames = {}
  SeededName = "3"
  AddClusterCap = 5
  Budget <- LateInventoryBudget
PROPERTIES CreatingEnds
