SPECIFICATION FairSpec
CONSTANTS
  Keys = {p}
  Workers = {w}
  NoKey = NoKey
  Namespace = {n}
  MaxUserSteps = 2
  MaxFailures = 1
  MaxBreaks = 1
  HiddenChanges = FALSE
INVARIANTS
  TypeOK
  WorkersSeeSyncedStores
  MissingIsPending
PROPERTIES
  SignalEnds
  AnnouncedIsTaken
  NamespaceGetsDefinition
