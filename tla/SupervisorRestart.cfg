CONSTANTS
  AgentNames = {"main"}
  Policies = {"on-failure"}
  ConfiguredAgents <- OneConfigured
  MaxHandles = 1
  Procs <- TwoProcs
  Callers = {c1}
  MaxAttempt = 1
  MaxResets = 1
  Faults = {}
  NoAgent = "none"
SPECIFICATION FairSupervisorSpec
PROPERTY RestartSpawnsFresh
CHECK_DEADLOCK FALSE
