SPECIFICATION Spec
CONSTANTS
  None = None
  Null = Null
  Ids = {k1}
  Patches = {p1, p2}
  Workers = {w1}
  EventLists <- MCEventLists
  Type = "audit.write"
  MaxFaults = 1
PROPERTIES
  OmittedFieldsKept
