SPECIFICATION FairSpec
CONSTANTS
  CoolingOff = 1
  ManualCoolingOff = 1
  MaxBackoff = 1
  e1 = e1
  e2 = e2
  e3 = e3
  s1 = s1
  s2 = s2
  s3 = s3
  None = None
  Events = {e1, e2, e3}
  Subs = {s1, s2, s3}
  Keys = {k1, k2, k3}
  Workers = {w1, w2}
  QueueFactor = 1
  MaxAttempts = 2
  HasDLQ = TRUE
  StoreMayFail = TRUE
  DistinctNanos = TRUE
  Enabled = {s1, s2}
  Type <- MCType
  Filter <- MCFilter
INVARIANTS
  TypeOK
  NoOrphan
  DrainedOnClose
  FullBurst
  
PROPERTIES
  AcceptedSettles
  CloseTerminates
  ImplementsContract
