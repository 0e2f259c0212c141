CONSTANTS
  Agents = {"a", "b"}
  Listed = {"a"}
  Addable = {"b"}
  Commands = {c1, c2}
  MaxHubs = 3
  MaxInvocations = 2
  MaxDeaths = 0
  AgentIDs = {"a", "b"}
  Configured <- OneConfigured
  Conns = {"c1"}
  TomlDisabled = {"b"}
  Requested = {"a", "b"}
  MaxRequests = 2
  MaxRestarts = 1
  AgentNames = {"a"}
  Policies = {"never"}
  ConfiguredAgents <- NoneConfigured
  MaxHandles = 2
  Procs <- TwoProcs
  Callers = {c1}
  MaxAttempt = 1
  MaxResets = 0
  Faults = {}
  NoAgent = "none"
  LogAgents = {"a", "b"}
  Kinds = {"debug", "warn", "plain"}
  MinLevels = {"warn"}
  ChanCap = 1
  MaxLines = 2
  MaxExits = 1
  Subjects = {"registry", "inbox"}
  MaxEntries = 4
  MaxShort = 1
  MaxStops = 1
  c1 = c1
  c2 = c2
SPECIFICATION MCSpec
INVARIANTS
  
  
  
  HubFindable
  RemovedAreStopped
  LogsKept
PROPERTIES
  AddedIsSupervised
  ConfiguredJoin
CHECK_DEADLOCK FALSE
