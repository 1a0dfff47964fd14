SPECIFICATION Spec
CONSTANTS
  c1 = c1
  c2 = c2
  s1 = s1
  s2 = s2
  s3 = s3
  key = key
  other = other
  NoKey = NoKey
  Nobody = Nobody
  Refused = Refused
  Customers = {c1}
  Submits = {s1, s2, s3}
  Owner <- OneOwner
  KeysOf <- TwoKeys
  Variations = {1}
  FlashItems = {}
  Requests <- CartRequests
  Limit <- Plenty
  FirstCart <- OneLineCarts
  FirstLines = 1
  MaxChanges = 1
PROPERTY SameKeySameAnswer
CHECK_DEADLOCK FALSE
