SPECIFICATION Spec
CONSTANTS
  Keys <- OneKey
  NsOf <- MCNsOf
  Subnets <- OneSubnet
  Hosts <- MCHosts
  DefaultGateway <- MCGateway
  CreatedGateways <- Explicit
  Annotations <- StaticOnly
  Events = {}
  MaxEvents = 0
  RetrySteps = 2
INVARIANTS
  StaticMACHonoured
CHECK_DEADLOCK FALSE
