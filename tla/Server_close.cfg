SPECIFICATION Spec
CONSTANTS
  CoolingOff = 1
  ManualCoolingOff = 1
  MaxBackoff = 1
  MaxAge = 0
  None = None
  Scheduler = Scheduler
  Requests = {}
  Discards = 1
  AutoSlots = 1
  RequestSlots = 1
  DLQMaxAttempts = 1
  MaxFaults = 0
  Events = {e1}
  Subs = {s1}
  Keys = {k1}
  Workers = {w1}
  QueueFactor = 1
  MaxAttempts = 1
  HasDLQ = TRUE
  StoreMayFail = FALSE
  DistinctNanos = TRUE
  Enabled = {s1}
  Type <- MCType
  Filter <- MCFilter
INVARIANTS
  CloseWaitsForReplays
