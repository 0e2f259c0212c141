CONSTANTS
  IDs = {"main"}
  Publishers = {"hubclient"}
  Payload <- TestAndHubClient
  Removers = {}
  MaxNow = 12
  NoId = ""
SPECIFICATION FairSpec
PROPERTY AgentsListed
CHECK_DEADLOCK FALSE
