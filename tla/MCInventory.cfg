CONSTANTS
  Names <- MCNames
  Prefix <- MCPrefix
  Links <- MCLinks
  Owners <- MCOwners
  Services <- MCServices
  Extras <- MCExtras
  Askeds <- MCAskeds
  HEADROOM = 1
  MaxChanges = 1
SPECIFICATION InventorySpec
INVARIANTS GatewayIsItsOwn UsableInterfacesLead TunnelsAreReal
PROPERTIES WholeTableOrNone
CHECK_DEADLOCK FALSE
