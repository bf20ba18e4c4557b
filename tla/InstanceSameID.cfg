SPECIFICATION Spec
CONSTANTS
  Keys = {k1, k2}
  NoKey = NoKey
  Names = {"a"}
  InvalidNames = {}
  SeededName = "3"
  AddClusterCap = 5
  Budget <- TwoInstancesBudget
INVARIANTS IDIdentifies
