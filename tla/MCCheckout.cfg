SPECIFICATION Spec
CONSTANTS
  c1 = c1
  c2 = c2
  s1 = s1
  s2 = s2
  s3 = s3
  key = key
  other = other
  NoKey = NoKey
  Nobody = Nobody
  Refused = Refused
  Customers = {c1, c2}
  Submits = {s1, s2, s3}
  Owner <- AllOwners
  KeysOf <- AllKeys
  Variations = {1, 2}
  FlashItems = {1, 2}
  Requests <- AllRequests
  Limit <- Scarce
  FirstCart <- FirstCarts
  FirstLines = 3
  MaxChanges = 1
INVARIANTS TypeOK BooksBalance CartBoughtOnce NoWaitCycle
PROPERTY SalesSpec
CHECK_DEADLOCK FALSE
