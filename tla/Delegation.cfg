CONSTANTS
  Agents = {"a", "b"}
  Tasks = {"t1", "t2"}
  From <- OneCaller
  To <- PeerAndSelf
  NoTask = "none"
  Outcomes = {"ok", "error"}
  MaxDeliver = 2
  MaxDeaths = 1
SPECIFICATION Spec
INVARIANTS
  TypeOK
  AckedWasRun
  
PROPERTY ContractKept
CHECK_DEADLOCK FALSE
