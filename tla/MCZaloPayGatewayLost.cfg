CONSTANTS
  Attempts = {a1}
  Handlers = {h1}
  Cron = cron
  MaxCrashes = 1
SPECIFICATION FairSpec
CHECK_DEADLOCK FALSE
PROPERTIES
  CapturedIsAccountedFor
