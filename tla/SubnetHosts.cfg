SPECIFICATION Spec
CONSTANTS
  Bits = 2
  Width = 2
  PrefixLens <- AllButZero
  RangeLists <- MCRangeLists
INVARIANTS
  TypeOK
  HostsCorrect
  LowestFreeFirst
  GatewayInNetwork
PROPERTIES
  Terminates
CHECK_DEADLOCK FALSE
