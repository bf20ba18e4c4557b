SPECIFICATION FairSpec
CONSTANTS
  Keys = {k1}
  NoKey = NoKey
  Services = {"s"}
  NoService = "none"
  Kinds <- Children1
  MaxLag = 1
  Budget <- AgainBudget
INVARIANTS IInv RestingOwnsChildren BoundOwnsChildren
PROPERTIES EventuallyBound NothingLeftBehind ImplementsBinding
