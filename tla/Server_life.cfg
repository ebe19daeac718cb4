SPECIFICATION FairSpec
CONSTANTS
  CoolingOff = 1
  ManualCoolingOff = 1
  MaxBackoff = 1
  MaxAge = 0
  None = None
  Scheduler = Scheduler
  Requests = {r1}
  Discards = 1
  AutoSlots = 1
  RequestSlots = 1
  DLQMaxAttempts = 1
  MaxFaults = 1
  Events = {e1}
  Subs = {s1, s2}
  Keys = {k1}
  Workers = {w1}
  QueueFactor = 1
  MaxAttempts = 1
  HasDLQ = TRUE
  StoreMayFail = TRUE
  DistinctNanos = TRUE
  Enabled = {s1, s2}
  Type <- MCType
  Filter <- MCFilter
PROPERTIES
  ShutdownEnds
INVARIANTS
  DeadLettersOutliveProcess
  ShutdownOrder
