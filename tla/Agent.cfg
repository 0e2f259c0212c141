CONSTANTS
  client = client
  Threads = {"call1", "call2", "watcher"}
  EmptyValue = {}
  JobIDs = {"often", "broken"}
  Calls = {"call1", "call2"}
  MaxOps = 2
  Minutes = 2
  Matches <- OftenAndBroken
  Schedules <- TwoFields
  Times <- TwoTimes
  Conns = {client}
  ChatSinks = {1}
  QueueCap = 1
  MaxTurns = 2
  MaxDeltas = 0
  MaxDisturbances = 1
  Ids = {"m1", "m2"}
  Bodies = {"old", "new"}
  ToolCalls = {"call1", "call2"}
  MaxToolCalls = 2
  MaxRestarts = 2
  Budget = 5
  SummarizeAt = 4
  SummarizeTurns = 1
  PruneLevels <- AllLevels
  maxIterations = 2
  Usages = {3, 9}
  MaxRuns = 3
  MaxClears = 1
  MaxCrashes = 1
  Writers = {"tool1", "tool2", "hub"}
  Models = {"model1", "model2"}
  Souls = {"soul1", "soul2"}
  MaxWrites = 2
  MaxEdits = 1
  MaxStarts = 1
  Sticky <- TwoBlocks
  Personalities <- TwoPersonalities
  Skills <- NoneOrOneSkill
  Memories = {"m1", "m2"}
  MaxMemoryTokens = 3
  MaxChanges = 4
  maxAttempts = 3
  overloadedMaxRetries = 2
  MaxBlocks = 3
  MaxPieces = 2
SPECIFICATION MCSpec
INVARIANTS
  PartsTypeOK
  
  
  ClientsFollowTurns
  ChatShowsTurns
  DrainWaits
  OneRunPerJob
  CronInStepWhenSerial
  ExpressionsDenote
  
  MemoriesKept
  
PROPERTIES
  LayersCached
  AllTurnsEnd
  ScheduledJobsRun
CHECK_DEADLOCK FALSE
