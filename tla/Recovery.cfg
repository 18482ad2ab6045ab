SPECIFICATION FairSpec
CONSTANTS
  Ops = {o1, o2}
  NoOp = NoOp
  MaxRevision = 1
  MaxChanges = 2
  MaxOwnerCommits = 0
  MaxAsks = 0
  MaxCancels = 0
  MaxCrashes = 1
  MaxDrops = 0
INVARIANTS
  InFlightHasTask
  IterationStartsAtCheckpoint
PROPERTIES
  QueuedIsResumed
CHECK_DEADLOCK FALSE
