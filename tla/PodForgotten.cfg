SPECIFICATION Spec
CONSTANTS
  Keys <- OneKey
  NsOf <- MCNsOf
  Subnets <- OneSubnet
  Hosts <- MCHosts
  DefaultGateway <- MCGateway
  CreatedGateways <- Explicit
  Annotations <- AutoOnly
  Events = {"updatePod"}
  MaxEvents = 1
  RetrySteps = 2
INVARIANTS
  ServedOrPending
CHECK_DEADLOCK FALSE
