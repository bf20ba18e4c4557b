SPECIFICATION FairSpec
CONSTANTS
  Keys = {k1}
  NoKey = NoKey
  Names = {"a"}
  InvalidNames = {}
  SeededName = "3"
  AddClusterCap = 1
  Budget <- LifeBudget
INVARIANTS IInv RestingIsTruthful
PROPERTIES EventuallyListed
