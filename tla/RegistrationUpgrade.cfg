SPECIFICATION FairSpec
CONSTANTS
  LastVersion = 2
  RolesReadable = TRUE
  Budget <- UpgradeBudget
PROPERTIES RegistersItself
