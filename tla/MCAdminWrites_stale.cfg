\* Two advertisers, one write at a time: how old may a review be when it is written?
SPECIFICATION WritesSpec
CONSTANTS
  N = 2
  Profiles = {a}
  Changes = {}
  Replacements = {{1, 2}}
  Width = 1
  MaxAge = 1
  MaxId = 3
  MaxClock = 2
  Scenarios <- OneBatch
PROPERTIES DispatchIsFresh
