SPECIFICATION FairSpec
CONSTANTS
  Keys = {k1}
  NoKey = NoKey
  Names = {"a", "b"}
  InvalidNames = {}
  SeededName = "3"
  AddClusterCap = 1
  Budget <- LossBudget
INVARIANTS RestingIsProvisioned
PROPERTIES ReadyOnlyWhenBacked LostClusterIsReported DeletedIsForgotten WorkerReturns ImplementsLifecycle
