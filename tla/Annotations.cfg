SPECIFICATION Spec
CONSTANTS
  Keys <- OneKey
  NsOf <- MCNsOf
  Subnets <- TwoSubnets
  Hosts <- MCHosts
  DefaultGateway <- MCGateway
  CreatedGateways <- Explicit
  Annotations <- AllModes
  Events = {"listIPs", "listPods", "createLost", "recreatePod", "relist", "restart"}
  MaxEvents = 2
  RetrySteps = 2
INVARIANTS
  GatewayNeverAllocated
  HonoursAnnotation
CHECK_DEADLOCK FALSE
