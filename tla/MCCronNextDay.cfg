CONSTANTS
  Intervals = {4, 5}
  MaxRetries = 1
  MaxDown = 1
  Requests = {}
  LastDay = 6
SPECIFICATION SubSpec
INVARIANTS OrdersApart
CHECK_DEADLOCK FALSE
