SPECIFICATION Spec
CONSTANTS
  CoolingOff = 1
  ManualCoolingOff = 1
  MaxBackoff = 1
  MaxAge = 0
  None = None
  Scheduler = Scheduler
  Requests = {r1, r2}
  Discards = 2
  AutoSlots = 1
  RequestSlots = 2
  DLQMaxAttempts = 2
  MaxFaults = 2
  Events = {e1}
  Subs = {s1}
  Keys = {k1}
SYMMETRY Symmetry
INVARIANTS
  TypeOK
  NoLetterLost
  NotAbandonedEarly
