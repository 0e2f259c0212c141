CONSTANTS
  AgentNames = {"main"}
  Policies = {"always"}
  ConfiguredAgents <- OneConfigured
  MaxHandles = 1
  Procs <- TwoProcs
  Callers = {c1}
  MaxAttempt = 1
  MaxResets = 0
  Faults = {}
  NoAgent = "none"
SPECIFICATION FairSupervisorSpec
PROPERTY StopTakesEffect
CHECK_DEADLOCK FALSE
