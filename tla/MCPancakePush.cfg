CONSTANTS
  Runs = {r1, r2}
  Methods = {"GATEWAY", "BANK_TRANSFER"}
  MaxMade = 2
SPECIFICATION PushSpec
SYMMETRY Symmetric
CHECK_DEADLOCK FALSE
INVARIANTS
  PushTypeOK
  OneWarehouseOrder
  PaidThere
  
PROPERTIES
  StaleKept
