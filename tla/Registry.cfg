CONSTANTS
  IDs = {"main"}
  Publishers = {"test", "hubclient"}
  Payload <- TestAndHubClient
  Removers = {r1}
  MaxNow = 12
  NoId = ""
SPECIFICATION FairSpec
INVARIANTS
  TypeOK
  DisconnectJustified
  SilenceNoticed
CHECK_DEADLOCK FALSE
