SPECIFICATION Spec
CONSTANTS
  Keys = {k1}
  NoKey = NoKey
  Names = {"a", "b", "x"}
  InvalidNames = {"x"}
  SeededName = "3"
  AddClusterCap = 1
  Budget <- FaultBudget
INVARIANTS IInv RestingIsProvisioned
PROPERTIES IDSticky ImplementsLifecycle
