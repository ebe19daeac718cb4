SPECIFICATION FairSpec
CONSTANTS
  i1 = i1
  u1 = u1
  u2 = u2
  NoID = NoID
  Silent = Silent
  Failed = Failed
  NotAsked = NotAsked
  N = 2
  Lists <- MCLists
  Listed <- MCListed
INVARIANTS
  TypeOK
  NoDuplicates
  FirstWins
  StableServed
PROPERTIES
  Returns
