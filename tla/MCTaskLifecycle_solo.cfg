\* One Tale, started twice, two tasks, room for one terminal task.
SPECIFICATION Spec
CONSTANTS
  Instances = {a}
  MaxRecords = 2
  MaxLaunches = 2
  Limits = {1}
  Outcomes = {"Succeeded", "Cancelled"}
CHECK_DEADLOCK FALSE
INVARIANTS HistoryUpToDate
PROPERTIES ImplementsDurableHistory
