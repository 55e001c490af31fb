SPECIFICATION FairSpec
CONSTANTS
  Keys <- OneKey
  NsOf <- MCNsOf
  Subnets <- TwoSubnets
  Hosts <- MCHosts
  DefaultGateway <- MCGateway
  CreatedGateways <- Explicit
  Annotations <- RoomyAndTight
  Events = {"deleteIP", "createLost", "recreatePod", "restart", "relist"}
  MaxEvents = 2
  RetrySteps = 2
PROPERTIES
  PurgeDecidesOnTheDead
  OrphansReclaimed
  RetriesEnd
CHECK_DEADLOCK FALSE
