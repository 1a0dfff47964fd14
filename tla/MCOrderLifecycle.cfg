CONSTANTS
  Handlers = {h1, h2}
  Expiry = expiry
  OrderKinds <- StatusOrders
  Callers <- StatusCallers
  MaxCrashes = 1
SPECIFICATION Spec
SYMMETRY Symmetric
CHECK_DEADLOCK FALSE
INVARIANTS
  TypeOK
  StockReleasedOnce
  NoPaidMoneyKept
  UnpaidPrepaidHeld
  OneWayOut
PROPERTIES
  StatusOnlyMovesForward
  ExpiryNeverCancelsPaid
  ClosedIsFrozen
  NoCancelAfterHandover
  HandRefundNotRepeated
  SettlementSpec
