SPECIFICATION Spec
CONSTANTS
  None = None
  Keys = {1, 2, 3, 4}
  Filters <- MCFilters
  Limits = {None, 0, 1, 3}
  DefaultLimit = 2
  MaxLimit = 2
  MaxChanges = 3
INVARIANTS
  TimeFilterFindsEntries
