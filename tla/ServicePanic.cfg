CONSTANTS
  Pods <- MCPods
  Stuck <- MCStuck
  OwnerRefs <- MCOwnerRefs
  ReplicaSets <- MCReplicaSets
  RSOwnerRefs <- MCRSOwnerRefs
  Workloads <- MCWorkloads
  UserServices <- MCUserServices
  Twin <- MCTwin
  MaxPort = 3
  MaxFailures = 1
  MaxRestarts = 1
  MaxChanges = 3
SPECIFICATION FairSpec
INVARIANT NeverPanics
CHECK_DEADLOCK FALSE
