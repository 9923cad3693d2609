\* Two tasks, room for one terminal task: is a seen end ever forgotten?
SPECIFICATION Spec
CONSTANTS
  Instances = {a}
  MaxRecords = 2
  MaxLaunches = 2
  Limits = {1}
  Outcomes = {"Succeeded", "Cancelled"}
INVARIANTS EndedTasksStayEnded
CHECK_DEADLOCK FALSE
