\* A batch of two children, one at a time; one task through two
\* starts of one Tale; three reads; five commands.
SPECIFICATION EndingSpec
CONSTANTS
  N = 2
  Profiles = {a}
  Changes = {}
  Replacements = {{1, 2}}
  Width = 1
  MaxAge = 1
  MaxId = 3
  MaxClock = 0
  Instances = {a}
  MaxRecords = 1
  MaxLaunches = 2
  Limits = {1}
  Outcomes = {"Succeeded", "Failed", "Cancelled"}
  Calls = {1, 2, 3}
  MaxRetries = 2
  TokenBounds <- TokenScenarios
  PipeSize = 1
  LineSlots = 1
  OutputLimit = 1
  CommandBounds <- CommandScenarios
CHECK_DEADLOCK FALSE
INVARIANTS EndedBatchIsAnswered TokenIsShared OutputIsKept
PROPERTIES SentOnce BatchEnds CancelledTaskEnds EveryEndIsStored ReadsAndCommandsEnd
