CONSTANTS
  Runs = {r1}
  Methods = {"BANK_TRANSFER"}
  MaxMade = 1
SPECIFICATION PushSpec
CHECK_DEADLOCK FALSE
INVARIANTS
  AbsentMeansAbsent
