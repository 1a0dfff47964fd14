CONSTANTS
  Orders = {o1, o2}
  Requests = {r1}
  DeliveredCron = deliveredCron
  ReversalCron = reversalCron
  Closers = {"shop"}
  MaxFaults = 2
  Package = o1
  Rivals = {r1, r2}
  RivalFaults = 1
SPECIFICATION RewardsSpec
CHECK_DEADLOCK FALSE
INVARIANTS
  TypeOK
  ReversalMarkHonest
  DeliveredMarkHonest
  WalletHoldsPaid
  GroupWaterTakenBack
PROPERTIES
  ResyncsGetThere
