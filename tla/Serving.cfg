SPECIFICATION FairSpec
CONSTANTS
  Keys <- TwoKeys
  NsOf <- MCNsOf
  Subnets <- OneSubnet
  Hosts <- MCHosts
  DefaultGateway <- MCGateway
  CreatedGateways <- EitherWay
  Annotations <- Contended
  Events = {"getSubnet", "listPods", "listIPs", "conflict", "createIP", "deleteIP", "updateSubnet"}
  MaxEvents = 2
  RetrySteps = 3
INVARIANTS
  ServedOrPending
  LabelMatchesIP
PROPERTIES
  EventuallyServed
CHECK_DEADLOCK FALSE
