SPECIFICATION FairSpec
CONSTANTS
  a = a
  b = b
  None = None
  Unknown = Unknown
  Requests = {r1, r2}
  Sites = {a, b}
  Secured = {a}
  Ops <- MCOps
  MaxTime = 1
INVARIANTS
  TypeOK
  EntriesTrue
  AuditComplete
  
  CreatedStays
  EventsTellOfEntries
  StoresLive
PROPERTIES
  Answered
