CONSTANTS
  Agents = {"a", "b"}
  Tasks = {"t1", "t2"}
  From <- CallerAndTarget
  To <- AllToA
  NoTask = "none"
  Outcomes = {"ok"}
  MaxDeliver = 2
  MaxDeaths = 1
SPECIFICATION FairSpec
PROPERTIES
  CallsReturn
  QueuedTasksRun
CHECK_DEADLOCK FALSE
