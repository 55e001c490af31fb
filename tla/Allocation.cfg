SPECIFICATION Spec
CONSTANTS
  Keys = {p, q}
  NsOf <- OneNamespace
  Subnets <- OneSubnet
  Hosts <- MCHosts
  DefaultGateway <- MCGateway
  CreatedGateways <- Explicit
  Annotations <- ListAndAuto
  Events = {"getPod", "updatePod", "conflict", "createIP", "createLost", "recreatePod", "relist", "restart"}
  MaxEvents = 1
  RetrySteps = 2
INVARIANTS
  TypeOK
  UniqueIPs
  PickedIPIsFree
  SharedListLabelsDistinct
PROPERTIES
  ImplementsPool
SYMMETRY KeyPermutations
CHECK_DEADLOCK FALSE
