CONSTANTS
  AgentNames = {"main"}
  Policies = {"always", "on-failure", "never"}
  ConfiguredAgents <- NoneConfigured
  MaxHandles = 1
  Procs <- TwoProcs
  Callers = {c1}
  MaxAttempt = 1
  MaxResets = 2
  Faults = {"build", "start"}
  NoAgent = "none"
SPECIFICATION FairSupervisorSpec
PROPERTIES
  StopEndsMonitor
  AlwaysRelaunches
CHECK_DEADLOCK FALSE
