\* A batch form that the second advertiser cannot accept.
SPECIFICATION WritesSpec
CONSTANTS
  N = 2
  Profiles = {a}
  Changes = {}
  Replacements = {{1}}
  Width = 2
  MaxAge = 1
  MaxId = 3
  MaxClock = 0
  Scenarios <- OneBatch
INVARIANTS NoOrphanedLock
