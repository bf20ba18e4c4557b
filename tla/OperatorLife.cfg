SPECIFICATION FairSpec
CONSTANTS
  Instances = {i1}
  Inventory = inv
  NoKey = NoKey
  Names = {"a"}
  InvalidNames = {}
  SeededName = "3"
  AddClusterCap = 1
  InstanceBudget <- OneInstance
  InventoryBudget <- OneInventory
INVARIANTS NothingIsDropped
PROPERTIES EventuallyServed ImplementsLifecycle
