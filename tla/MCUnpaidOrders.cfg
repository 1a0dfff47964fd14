CONSTANTS
  Attempts = {a1, a2}
  Handlers = {h1}
  Cron = cron
  Expiry = expiry
  MaxCrashes = 1
SPECIFICATION UnpaidSpec
CHECK_DEADLOCK FALSE
INVARIANTS
  TypeOK
  PaidByOne
  OneOutcome
PROPERTIES
  CapturedOrderGetsPaid
  AbandonedOrderLeaves
