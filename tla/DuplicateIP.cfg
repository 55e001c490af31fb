SPECIFICATION Spec
CONSTANTS
  Keys <- SplitKeys
  NsOf <- MCNsOf
  Subnets <- OneSubnet
  Hosts <- MCHosts
  DefaultGateway <- MCGateway
  CreatedGateways <- Explicit
  Annotations <- AutoOnly
  Events = {"listIPs"}
  MaxEvents = 1
  RetrySteps = 2
INVARIANTS
  UniqueIPs
CHECK_DEADLOCK FALSE
