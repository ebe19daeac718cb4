SPECIFICATION FairSpec
CONSTANTS
  CoolingOff = 1
  ManualCoolingOff = 1
  MaxBackoff = 2
  MaxAge = 6
  None = None
  Scheduler = Scheduler
  Requests = {}
  Discards = 1
  AutoSlots = 1
  RequestSlots = 2
  DLQMaxAttempts = 4
  MaxFaults = 0
  Events = {e1, e2}
  Subs = {s1}
  Keys = {k1, k2}
INVARIANTS
  AttemptsExact
  RetryBound
  BackoffAddsUp

  
  
