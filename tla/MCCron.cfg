CONSTANTS
  Instances = {i1, i2}
  Nobody = Nobody
  Runs = {r1, r2, r3}
  NoRun = NoRun
  Ttl = 6
  Renew = 2
  Delay = 2
  MaxFaults = 3
  Intervals = {4, 5}
  MaxRetries = 1
  MaxDown = 1
  Requests = {q1}
  LastDay = 5
SPECIFICATION Spec
INVARIANTS TypeOK OneLeader OneRun LossIsReal ApartUnlessCrossed
PROPERTIES LockIsTakenOnce LeadComesBack NothingDroppedSilently
CHECK_DEADLOCK FALSE
