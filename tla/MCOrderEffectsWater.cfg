CONSTANTS
  Orders = {o1, o2}
  Requests = {r1}
  DeliveredCron = deliveredCron
  ReversalCron = reversalCron
  Closers = {"shop", "customer"}
  MaxFaults = 0
SPECIFICATION Spec
SYMMETRY Symmetric
CHECK_DEADLOCK FALSE
INVARIANTS
  GroupWaterTakenBack
