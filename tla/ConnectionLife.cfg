SPECIFICATION FairSpec
CONSTANTS
  Keys = {k1}
  NoKey = NoKey
  Services = {"s"}
  NoService = "none"
  Kinds <- Children2
  MaxLag = 1
  Budget <- LifeBudget
INVARIANTS IInv RestingOwnsChildren
PROPERTIES EventuallyBound FollowsInventory
