SPECIFICATION FairSpec
CONSTANTS
  LastVersion = 1
  RolesReadable = FALSE
  Budget <- PlainBudget
PROPERTIES RegistersItself
