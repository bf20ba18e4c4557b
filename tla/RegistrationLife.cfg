\* The operator may be uninstalled for good.
CHECK_DEADLOCK FALSE
SPECIFICATION FairSpec
CONSTANTS
  LastVersion = 2
  RolesReadable = TRUE
  Budget <- LifeBudget
INVARIANTS IInv RestingIsRegistered
PROPERTIES OwnedByCreator CleanedUp FirstRegisters SettlesDown
