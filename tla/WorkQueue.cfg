CONSTANTS
  Keys = {k1, k2}
  Workers = {w1, w2}
  NoKey = NoKey
  ChannelSize = 1
SPECIFICATION FairSpec
INVARIANTS TypeOK QueueHoldsTheDirty NothingLeftBehind
PROPERTIES ImplementsPendingWork AddedIsTaken FailedIsRetried WorkersEnd
