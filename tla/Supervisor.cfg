CONSTANTS
  AgentNames = {"main"}
  Policies = {"always", "on-failure", "never"}
  ConfiguredAgents <- OneConfigured
  MaxHandles = 1
  Procs <- TwoProcs
  Callers = {c1, c2}
  MaxAttempt = 1
  MaxResets = 1
  Faults = {"build", "start"}
  NoAgent = "none"
SPECIFICATION SupervisorSpec
INVARIANTS
  TypeOK
  MonitorOwnsProcess
  StatusMatchesMonitor
  RestartsJustified
  AtMostOneLateStart
  OnceMatchesChannel
SYMMETRY CallerSymmetry
CHECK_DEADLOCK FALSE
